---- MODULE Spec2Model ----
(***************************************************************************)
(* A model of the climate-data pipeline: the statistics extractor          *)
(* (climate_data and calculate_stats in data_processing.py), the raster    *)
(* clipper (raster_clip), the stages of data_processing and main's prompt, *)
(* and the antecedent index engine (calculate_napi and ante_conditions in  *)
(* napi.py).                                                               *)
(*                                                                         *)
(* Numbers.  A float cell is NaN (the empty tuple) or <<v>> with v an      *)
(* integer.  Quotients are kept as exact fractions and rounded half-even   *)
(* to `decimals` places, so a stored NAPI is <<r, d>>: the value r / 10^d. *)
(* The decay constant k is the fraction <<kn, kd>>, kd > 0.                *)
(*                                                                         *)
(* Tables.  A CSV file is [header |-> sequence of column names,            *)
(* rows |-> sequence of rows], a row being a function from the header's    *)
(* column names to cells, as in a DataFrame.                               *)
(*                                                                         *)
(* Dates.  A Date cell is the text "YYYY-MM-DD", modelled <<m, d>>, or the *)
(* text "YYYY-MM", modelled <<m>> (one year is enough for the ordering).   *)
(***************************************************************************)
EXTENDS Integers, Sequences, FiniteSets, TLC

VARIABLES
    csv,          \* the table on storage: [header, rows]
    napi_ret,     \* what calculate_napi returned: "pending", "True", "False"
    napi_call,    \* the arguments of the call to calculate_napi
    csv_before,   \* the table as it was when calculate_napi was called
    cd_pc,        \* climate_data: "idle", "loop", "done" or "raised"
    cd_run,       \* climate_data: its parameters [climate, unit, decimals]
    cd_log,       \* climate_data: per raster taken from the list, what became
                  \* of it: "row", "skip" (logged), "open_error", "parse_error"
    raster,       \* climate_data: the raster of the last loop iteration
    sample,       \* climate_data: data_series of the last loop iteration
    cd_list,      \* climate_data: the file names of clipped_rasters taken from
                  \* the list so far, in list order
    dp,           \* data_processing: [pc, run, resolution, ante, answer,
                  \* moved_back, download, downloaded, stages, fault]; pc is
                  \* "none" when the functions are called on their own;
                  \* ante is whether ante_conditions was invoked, answer
                  \* what main was told at its prompt, download the answer
                  \* at the download prompt, downloaded the number of files
                  \* fetched, stages the stages gone through, fault what
                  \* made the run raise
    clip,         \* raster_clip: [pc, inputs, list, store, log, warnings,
                  \* shape]: the inputs taken so far, clipped_rasters_list,
                  \* the clipped directory as files [name, source, profile],
                  \* what became of each input, the names warned about and
                  \* the extent of the boundary
    stat_call,    \* calculate_stats called on its own: [pc, data_series,
                  \* climate, unit, decimals, result]
    ante          \* ante_conditions called on its own: where the dialogue
                  \* stands and what was typed

napiVars == <<napi_ret, napi_call, csv_before>>
climVars == <<cd_pc, cd_run, cd_log, raster, sample, cd_list>>
callVars == <<stat_call, ante>>
vars == <<csv, napi_ret, napi_call, csv_before, cd_pc, cd_run, cd_log, raster, sample,
          cd_list, dp, clip,
          stat_call, ante>>

----------------------------------------------------------------------------
(* Bounds of the model *)

MaxRows == 3
MaxN == 2
MaxCells == 2
MaxRasters == 2

----------------------------------------------------------------------------
(* Floats *)

NaN == <<>>
Num(v) == <<v>>
IsNaN(x) == x = NaN
Val(x) == x[1]

Abs(x) == IF x < 0 THEN -x ELSE x

RECURSIVE Pow(_, _)
Pow(b, e) == IF e = 0 THEN 1 ELSE b * Pow(b, e - 1)

\* <<q, r>> with q = floor(a * 10^d / b) and r the remainder, a >= 0, b > 0,
\* by long division (one decimal digit at a time).
RECURSIVE DivDigits(_, _, _)
DivDigits(a, b, d) ==
    IF d = 0 THEN <<a \div b, a % b>>
    ELSE LET p == DivDigits(a, b, d - 1)
         IN  <<p[1] * 10 + ((p[2] * 10) \div b), (p[2] * 10) % b>>

RECURSIVE Gcd(_, _)
Gcd(a, b) == IF b = 0 THEN a ELSE Gcd(b, a % b)

\* The fraction a / b in lowest terms, b # 0, with a positive denominator.
Reduced(a, b) ==
    LET g == Gcd(Abs(a), Abs(b))
        s == IF b < 0 THEN -1 ELSE 1
    IN  <<(s * a) \div g, (s * b) \div g>>

\* round(a / b, d) of napi.py:80 for b # 0: a / b rounded to d decimal places,
\* ties to the even digit; the result in units of 10^-d.
RoundHalfEven(a, b, d) ==
    LET f  == Reduced(a, b)
        s  == IF f[1] < 0 THEN -1 ELSE 1
        qr == DivDigits(Abs(f[1]), f[2], d)
        q  == qr[1]
        r2 == 2 * qr[2]
        up == \/ r2 > f[2]
              \/ r2 = f[2] /\ q % 2 = 1
    IN  s * (IF up THEN q + 1 ELSE q)

\* a / b lies midway between two multiples of 10^-d.
IsTie(a, b, d) ==
    LET f == Reduced(a, b)
    IN  2 * DivDigits(Abs(f[1]), f[2], d)[2] = f[2]

\* round(x, d) of napi.py:80 where x is the float64 result of a quotient a / b
\* whose operands were themselves computed in float64 (products with k^j, a
\* sum, a product with the mean).  x is a / b up to rounding error; e is the
\* side on which x misses a / b (-1 below, 1 above, 0 not at all).  The error
\* decides the result only when a / b is a tie: there round() sees a value
\* just below or just above the midpoint and goes to that side.
RoundFloat(a, b, d, e) ==
    IF e # 0 /\ IsTie(a, b, d)
    THEN LET f == Reduced(a, b)
             q == DivDigits(Abs(f[1]), f[2], d)[1]
         IN  IF f[1] >= 0 THEN (IF e > 0 THEN q + 1 ELSE q)
             ELSE (IF e > 0 THEN -q ELSE -(q + 1))
    ELSE RoundHalfEven(a, b, d)

----------------------------------------------------------------------------
(* DataFrame helpers *)

HasColumn(df, c) == \E i \in 1..Len(df.header) : df.header[i] = c

\* df[name] = value, per row: an existing column is overwritten, a new one is
\* appended after the others.
SetCell(row, name, value) ==
    [c \in (DOMAIN row) \cup {name} |-> IF c = name THEN value ELSE row[c]]

WithColumn(header, name) ==
    IF \E i \in 1..Len(header) : header[i] = name THEN header
    ELSE Append(header, name)

\* pd.to_datetime(df[date_field], format=...) of napi.py:46-49: "daily" reads
\* "YYYY-MM-DD" only and "monthly" reads "YYYY-MM" only; any other text raises.
Parses(cell, resolution) ==
    IF resolution = "daily" THEN Len(cell) = 2 ELSE Len(cell) = 1

\* The timestamp a parsed cell stands for: a month is its first day.
ToDatetime(cell) == IF Len(cell) = 2 THEN cell ELSE <<cell[1], 1>>

DateKey(ts) == ts[1] * 32 + ts[2]

Perms(n) == {p \in [1..n -> 1..n] : \A i, j \in 1..n : i # j => p[i] # p[j]}

\* df.sort_values(by=date_field) of napi.py:53: the orders an ascending sort
\* may leave the rows in (the default sort is not stable, so rows of equal
\* date may come out in any order).
SortOrders(rows, date_field) ==
    {p \in Perms(Len(rows)) :
        \A i \in 1..(Len(rows) - 1) :
            DateKey(rows[p[i]][date_field]) <= DateKey(rows[p[i + 1]][date_field])}

----------------------------------------------------------------------------
(* calculate_napi (napi.py) *)

RECURSIVE SumCells(_, _, _)
SumCells(rows, f, S) ==
    IF S = {} THEN 0
    ELSE LET i == CHOOSE x \in S : TRUE
         IN  Val(rows[i][f]) + SumCells(rows, f, S \ {i})

\* df[ppt_field].mean() of napi.py:57, as the fraction <<sum, count>>: pandas
\* leaves the undefined cells out, and the mean of no cell at all is NaN.
mean_ppt(rows, ppt_field) ==
    LET valid == {i \in 1..Len(rows) : ~IsNaN(rows[i][ppt_field])}
    IN  IF valid = {} THEN NaN
        ELSE <<SumCells(rows, ppt_field, valid), Cardinality(valid)>>

\* decay_constant**j, times kd^N so that it stays an integer.
Weight(k, j, N) == Pow(k[1], j) * Pow(k[2], N - j)

\* napi.py:70: sum of k^j for j = 1..ante_days (times kd^N).
RECURSIVE denominator(_, _, _)
denominator(k, N, j) ==
    IF j > N THEN 0 ELSE Weight(k, j, N) + denominator(k, N, j + 1)

\* napi.py:74-76: the weighted sum over the ante_days rows before row i (times
\* kd^N); undefined as soon as one of those cells is.  i counts rows from 1.
RECURSIVE numeratorSum(_, _, _, _, _, _)
numeratorSum(rows, i, k, N, ppt_field, j) ==
    IF j > N THEN 0
    ELSE Val(rows[i - j][ppt_field]) * Weight(k, j, N)
         + numeratorSum(rows, i, k, N, ppt_field, j + 1)

numeratorFromOwnRow(rows, i, k, N, ppt_field) ==
    IF \E j \in 0..(N - 1) : IsNaN(rows[i - j][ppt_field]) THEN NaN
    ELSE Num(numeratorSum(rows, i + 1, k, N, ppt_field, 1))

numerator(rows, i, k, N, ppt_field) ==
    IF \E j \in 1..N : IsNaN(rows[i - j][ppt_field]) THEN NaN
    ELSE Num(numeratorSum(rows, i, k, N, ppt_field, 1))

\* napi.py:72-82, one pass of the loop: the NAPI of the row at position i
\* (i - 1 is the code's 0-based index) of the sorted rows, m being mean_ppt.
napi_valueLateStart(rows, i, k, N, ppt_field, m, decimals, e) ==
    IF i - 1 > N
    THEN LET den == denominator(k, N, 1)
             num == numerator(rows, i, k, N, ppt_field)
         IN  IF IsNaN(m) \/ m[1] * den # 0
             THEN IF IsNaN(m) \/ IsNaN(num) THEN NaN
                  ELSE <<RoundFloat(Val(num) * m[2], m[1] * den, decimals, e),
                         decimals>>
             ELSE NaN
    ELSE NaN

napi_value(rows, i, k, N, ppt_field, m, decimals, e) ==
    IF i - 1 >= N
    THEN LET den == denominator(k, N, 1)
             num == numerator(rows, i, k, N, ppt_field)
         IN  IF IsNaN(m) \/ m[1] * den # 0
             THEN IF IsNaN(m) \/ IsNaN(num) THEN NaN
                  ELSE <<RoundFloat(Val(num) * m[2], m[1] * den, decimals, e),
                         decimals>>
             ELSE NaN
    ELSE NaN

\* abs(napi_value - 1) < 1e-6 of napi.py:91 for the stored value r / 10^d.
Near1Loose(x) ==
    LET r == x[1]
        d == x[2]
    IN  IF d <= 5 THEN Abs(r - Pow(10, d)) * Pow(10, 5 - d) < 1
        ELSE Abs(r - Pow(10, d)) < Pow(10, d - 5)

Near1(x) ==
    LET r == x[1]
        d == x[2]
    IN  IF d <= 6 THEN Abs(r - Pow(10, d)) * Pow(10, 6 - d) < 1
        ELSE Abs(r - Pow(10, d)) < Pow(10, d - 6)

\* napi.py:89-98: the label of a row from its stored NAPI ("" is the
\* undefined label, an empty cell of the file).
ConditionsNoNormal(x) ==
    IF IsNaN(x) THEN ""
    ELSE IF x[1] >= Pow(10, x[2]) THEN "wet"
    ELSE "dry"

Conditions(x) ==
    IF IsNaN(x) THEN ""
    ELSE IF Near1(x) THEN "normal"
    ELSE IF x[1] > Pow(10, x[2]) THEN "wet"
    ELSE IF x[1] < Pow(10, x[2]) THEN "dry"
    ELSE ""

\* napi.py:46-54: the dates parsed, the rows in the order the sort left them.
\* SortedFrame with the first row of the order at every position.
SortedFrameRepeatsFirst(rows, date_field, order) ==
    [i \in 1..Len(rows) |->
        SetCell(rows[order[1]], date_field, ToDatetime(rows[order[1]][date_field]))]

SortedFrame(rows, date_field, order) ==
    [i \in 1..Len(rows) |->
        SetCell(rows[order[i]], date_field, ToDatetime(rows[order[i]][date_field]))]

\* napi.py:59-64: the zero-mean path writes the NAPI column alone.
ZeroMeanFails(df) ==
    [ret |-> "False", file |-> df]

ZeroMeanFrame(df) ==
    [ret  |-> "True",
     file |-> [header |-> WithColumn(df.header, "NAPI"),
               rows   |-> [i \in 1..Len(df.rows) |-> SetCell(df.rows[i], "NAPI", NaN)]]]

\* napi.py:66-103: the normal path.
NapiFrame(df, k, N, ppt_field, m, decimals, err) ==
    LET withNapi(i) == SetCell(df.rows[i], "NAPI",
                               napi_value(df.rows, i, k, N, ppt_field, m, decimals,
                                          err[i]))
    IN  [ret  |-> "True",
         file |-> [header |-> WithColumn(WithColumn(df.header, "NAPI"), "Conditions"),
                   rows   |-> [i \in 1..Len(df.rows) |->
                                  SetCell(withNapi(i), "Conditions",
                                          Conditions(withNapi(i)["NAPI"]))]]]

\* napi.py:41: both required columns are in the table.
ColumnsPresent(file, ppt_field, date_field) ==
    HasColumn(file, ppt_field) /\ HasColumn(file, date_field)

\* napi.py:42-44: a missing column is reported, the file is left alone.
MissingColumnWrites(file) ==
    [ret  |-> "False",
     file |-> [header |-> WithColumn(file.header, "NAPI"),
               rows   |-> [i \in 1..Len(file.rows) |-> SetCell(file.rows[i], "NAPI", NaN)]]]

MissingColumn(file) == [ret |-> "False", file |-> file]

\* napi.py:105-108: anything raised inside the try is logged, the file is
\* left as it was (nothing is written before the computation is over).
Caught(file) == [ret |-> "False", file |-> file]

\* napi.py:39-108: the whole function, `order` being the order the sort picks.
\* A date that does not parse raises inside the try and is caught at :105.
\* The rows of the sorted frame whose quotient is defined and is a tie.
TieRows(rows, k, N, ppt_field, m, decimals) ==
    {i \in 1..Len(rows) :
        /\ i - 1 >= N
        /\ ~IsNaN(m)
        /\ ~IsNaN(numerator(rows, i, k, N, ppt_field))
        /\ m[1] * denominator(k, N, 1) # 0
        /\ IsTie(Val(numerator(rows, i, k, N, ppt_field)) * m[2],
                 m[1] * denominator(k, N, 1), decimals)}

\* The rounding errors of the quotients of one call, row by row: 0 wherever
\* the error cannot change the stored value.
FloatErrors(file, k, N, ppt_field, date_field, resolution, decimals, order) ==
    IF /\ ColumnsPresent(file, ppt_field, date_field)
       /\ \A i \in 1..Len(file.rows) : Parses(file.rows[i][date_field], resolution)
    THEN LET rows == SortedFrame(file.rows, date_field, order)
             ties == TieRows(rows, k, N, ppt_field, mean_ppt(rows, ppt_field), decimals)
         IN  {[i \in 1..Len(rows) |-> IF i \in ties THEN g[i] ELSE 0] :
                 g \in [ties -> {-1, 0, 1}]}
    ELSE {[i \in 1..Len(file.rows) |-> 0]}

calculate_napi(file, k, N, ppt_field, date_field, resolution, decimals, order, err) ==
    IF ~ColumnsPresent(file, ppt_field, date_field)
    THEN MissingColumn(file)
    ELSE IF \E i \in 1..Len(file.rows) : ~Parses(file.rows[i][date_field], resolution)
    THEN Caught(file)
    ELSE LET df == [header |-> file.header,
                    rows   |-> SortedFrame(file.rows, date_field, order)]
             m  == mean_ppt(df.rows, ppt_field)
         IN  IF ~IsNaN(m) /\ m[1] = 0
             THEN ZeroMeanFrame(df)
             ELSE NapiFrame(df, k, N, ppt_field, m, decimals, err)

----------------------------------------------------------------------------
(* The antecedent index engine run on a table *)

\* The columns of the tables given to calculate_napi: the file name stands for
\* every column the function only carries along.
TableHeader == <<"Filename", "Date", "Arithmetic Mean (mm)">>

\* The Date column of a table holds days ("YYYY-MM-DD") or months ("YYYY-MM"),
\* as climate_data wrote it from the file names of a daily or a monthly run.
DateCells(resolution) ==
    IF resolution = "daily" THEN {<<1, 1>>, <<1, 2>>} ELSE {<<1>>, <<2>>}
PptCells == {NaN, Num(0), Num(1)}

\* The decay constants tried: 0.98 is the preset of napi.py:111, and
\* ante_conditions accepts any other number once the user confirms it.
Ks == {<<49, 50>>, <<1, 2>>, <<0, 1>>, <<-1, 1>>}
\* The (ppt_field, date_field) pairs tried: both in the table, the
\* precipitation column missing, the date column missing.
Fields == {<<"Arithmetic Mean (mm)", "Date">>, <<"Arithmetic Mean (in)", "Date">>,
           <<"Arithmetic Mean (mm)", "Day">>}
Resolutions == {"daily", "monthly"}
Decimals == {2}

NoCall == [k |-> <<0, 1>>, N |-> 0, ppt_field |-> "", date_field |-> "",
           resolution |-> "", decimals |-> 0]

EmptyFile == [header |-> <<>>, rows |-> <<>>]

NoRun == [climate |-> "", unit |-> "", decimals |-> 0]
NoRaster == [name |-> "", grid |-> <<>>, nodata |-> [kind |-> "none", v |-> 0],
             scale |-> 1, offset |-> 0]

NoClip == [pc |-> "idle", inputs |-> <<>>, list |-> <<>>, store |-> {},
           log |-> <<>>, warnings |-> {}, shape |-> <<0, 0>>]

NoStats == [pc |-> "none", data_series |-> <<>>, climate |-> "", unit |-> "",
            decimals |-> 0,
            result |-> [min |-> NaN, max |-> NaN, mean |-> NaN, median |-> NaN]]
NoAnte == [pc |-> "none", resolution |-> "", k_value |-> <<0, 1>>, ante_days |-> 0,
           warned |-> FALSE, confirmed |-> FALSE, ante_num |-> ""]
NoDp == [pc |-> "none", run |-> NoRun, resolution |-> "", ante |-> FALSE,
         answer |-> "", moved_back |-> 0,
         download |-> "", downloaded |-> 0, stages |-> <<>>, fault |-> ""]

\* climate_data is not running.
ClimateIdle ==
    /\ cd_pc = "idle"
    /\ cd_run = NoRun
    /\ cd_log = <<>>
    /\ raster = NoRaster
    /\ sample = <<>>
    /\ cd_list = <<>>

\* calculate_napi has not been called.
NapiPending ==
    /\ napi_ret = "pending"
    /\ napi_call = NoCall
    /\ csv_before = EmptyFile

InitNapi ==
    /\ ClimateIdle
    /\ dp = NoDp
    /\ clip = NoClip
    /\ stat_call = NoStats
    /\ ante = NoAnte
    /\ \E n \in 0..MaxRows, written \in Resolutions :
         \E cells \in [1..n -> DateCells(written) \X PptCells] :
            csv = [header |-> TableHeader,
                   rows   |-> [i \in 1..n |->
                                 [c \in {"Filename", "Date", "Arithmetic Mean (mm)"} |->
                                     IF c = "Filename" THEN Num(i)
                                     ELSE IF c = "Date" THEN cells[i][1]
                                     ELSE cells[i][2]]]]
    /\ NapiPending

\* One call of calculate_napi on the table on storage.
CalculateNapi(ks, decs) ==
    /\ napi_ret = "pending"
    /\ \E fields \in Fields, res \in Resolutions :
         LET pf     == fields[1]
             dfl    == fields[2]
             parsed == /\ ColumnsPresent(csv, pf, dfl)
                       /\ \A i \in 1..Len(csv.rows) : Parses(csv.rows[i][dfl], res)
             orders == IF parsed
                       THEN SortOrders([i \in 1..Len(csv.rows) |->
                                           SetCell(csv.rows[i], dfl,
                                                   ToDatetime(csv.rows[i][dfl]))], dfl)
                       ELSE {[i \in 1..Len(csv.rows) |-> i]}
         IN  \E order \in orders :
               \E k \in ks, N \in 1..MaxN, dec \in decs :
                \E err \in FloatErrors(csv, k, N, pf, dfl, res, dec, order) :
                 LET out == calculate_napi(csv, k, N, pf, dfl, res, dec, order, err)
                 IN  /\ csv' = out.file
                     /\ napi_ret' = out.ret
                     /\ napi_call' = [k |-> k, N |-> N, ppt_field |-> pf,
                                      date_field |-> dfl, resolution |-> res,
                                      decimals |-> dec]
                     /\ csv_before' = csv
                     /\ UNCHANGED climVars
                     /\ UNCHANGED dp
                     /\ UNCHANGED clip
                     /\ UNCHANGED callVars

Init == InitNapi

\* Tables of two days whose precipitation values put the second row's
\* quotient (with N = 1: first value / mean) on and around the classification
\* boundary: 0.999, 1.001, 1.000002, 1 + 1e-7, 1 - 1e-7 and 1.
BoundaryPairs == {<<999, 1001>>, <<1001, 999>>, <<500001, 499999>>,
                  <<10000001, 9999999>>, <<9999999, 10000001>>, <<1, 1>>}
BoundaryKs == {<<9, 10>>, <<49, 50>>}
BoundaryDecimals == {2, 3, 6, 7}

InitBoundary ==
    /\ \E pair \in BoundaryPairs :
         csv = [header |-> TableHeader,
                rows   |-> [i \in 1..2 |->
                              [c \in {"Filename", "Date", "Arithmetic Mean (mm)"} |->
                                  IF c = "Filename" THEN Num(i)
                                  ELSE IF c = "Date" THEN <<1, i>>
                                  ELSE Num(pair[i])]]]
    /\ ClimateIdle
    /\ NapiPending
    /\ dp = NoDp
    /\ clip = NoClip
    /\ stat_call = NoStats
    /\ ante = NoAnte

NextBoundary == CalculateNapi(BoundaryKs, BoundaryDecimals)

SpecBoundary == InitBoundary /\ [][NextBoundary]_vars

Next == CalculateNapi(Ks, Decimals)

Spec == Init /\ [][Next]_vars

----------------------------------------------------------------------------
(* calculate_stats (data_processing.py) *)

RECURSIVE SumSeq(_)
SumSeq(vals) == IF vals = <<>> THEN 0 ELSE Val(Head(vals)) + SumSeq(Tail(vals))

\* The k-th smallest value of a sample without undefined values.
KthSmallest(vals, k) ==
    LET v(i) == Val(vals[i])
    IN  CHOOSE x \in {v(i) : i \in 1..Len(vals)} :
            /\ Cardinality({i \in 1..Len(vals) : v(i) < x}) < k
            /\ Cardinality({i \in 1..Len(vals) : v(i) <= x}) >= k

\* The sum divided by one less than the size of the sample.
cmeanOneLess(vals) ==
    <<SumSeq(vals), IF Len(vals) > 1 THEN Len(vals) - 1 ELSE 1>>

\* np.min, np.max, np.mean, np.median of data_processing.py:47-50 as
\* fractions <<numerator, denominator>>.
cmin(vals) == <<KthSmallest(vals, 1), 1>>
cmax(vals) == <<KthSmallest(vals, Len(vals)), 1>>
cmean(vals) == <<SumSeq(vals), Len(vals)>>
cmed(vals) ==
    LET n == Len(vals)
    IN  IF n % 2 = 1 THEN <<KthSmallest(vals, (n + 1) \div 2), 1>>
        ELSE <<KthSmallest(vals, n \div 2) + KthSmallest(vals, n \div 2 + 1), 2>>

\* climate.startswith('t'), on the climate codes of the model.
StartsWithT(climate) == climate \in {"tmean", "tmax", "tmin", "tdmean"}

\* Converted with the inch conversion applied to precipitation in every unit.
ConvertedAnyUnit(x, climate, unit, decimals, e) ==
    LET f == IF climate = "ppt" THEN <<x[1] * 10, x[2] * 254>>
             ELSE IF StartsWithT(climate) /\ unit = "f"
                  THEN <<9 * x[1] + 160 * x[2], 5 * x[2]>>
             ELSE x
    IN  <<RoundFloat(f[1], f[2], decimals, e), decimals>>

\* Converted with the inch conversion as a product.
ConvertedTimes(x, climate, unit, decimals, e) ==
    LET f == IF climate = "ppt" /\ unit = "in" THEN <<x[1] * 254, x[2] * 10>>
             ELSE IF StartsWithT(climate) /\ unit = "f"
                  THEN <<9 * x[1] + 160 * x[2], 5 * x[2]>>
             ELSE x
    IN  <<RoundFloat(f[1], f[2], decimals, e), decimals>>

\* data_processing.py:53-83: the statistic x in the requested unit, rounded.
\* x / 25.40 is 10 x / 254, and x * 9/5 + 32 is (9 x + 160) / 5.  e is the
\* side on which the float64 value handed to round() misses that fraction
\* (0: not at all); it decides the result where the fraction is a tie.
Converted(x, climate, unit, decimals, e) ==
    LET f == IF climate = "ppt" /\ unit = "in" THEN <<x[1] * 10, x[2] * 254>>
             ELSE IF StartsWithT(climate) /\ unit = "f"
                  THEN <<9 * x[1] + 160 * x[2], 5 * x[2]>>
             ELSE x
    IN  <<RoundFloat(f[1], f[2], decimals, e), decimals>>

\* data_processing.py:43: nothing to compute statistics from.
NoValidDataSizeOnly(data_series) == Len(data_series) = 0

NoValidData(data_series) ==
    \/ Len(data_series) = 0
    \/ \A i \in 1..Len(data_series) : IsNaN(data_series[i])

\* x counted in units of 1 / per.
Per(x, per) == <<x[1], x[2] * per>>

\* No rounding error: what float64 gives for whole numbers, whose sums are
\* exact and whose quotients and conversions are no ties at two decimals.
Exact == [cell |-> 0, mean |-> 0, median |-> 0]

\* np.mean is the float64 sum of the sample divided by its size; for one
\* value, and for two equal values, that is the value itself.
MeanIsCell(vals) ==
    Len(vals) <= 2 /\ KthSmallest(vals, 1) = KthSmallest(vals, Len(vals))

\* np.median is the middle value, or the float64 mean of the two middle
\* values, which is that value when they are equal.
MedianIsCell(vals) ==
    LET n == Len(vals)
    IN  \/ n % 2 = 1
        \/ KthSmallest(vals, n \div 2) = KthSmallest(vals, n \div 2 + 1)

\* data_processing.py:36-84 for a float64 sample whose values are counted in
\* units of 1 / per.  numpy's min, max, mean and median of a sample that
\* holds a NaN are all NaN, and round(nan, decimals) is nan.  err has the
\* sides on which float64 misses the exact value: of a value of the sample
\* (the values that sit on a tie are taken to miss it on the same side), of
\* the mean, and of the mean of the two middle values.
calculate_stats_float64(data_series, per, climate, unit, decimals, err) ==
    IF \/ NoValidData(data_series)
       \/ \E i \in 1..Len(data_series) : IsNaN(data_series[i])
    THEN [min |-> NaN, max |-> NaN, mean |-> NaN, median |-> NaN]
    ELSE [min    |-> Converted(Per(cmin(data_series), per), climate, unit, decimals,
                               err.cell),
          max    |-> Converted(Per(cmax(data_series), per), climate, unit, decimals,
                               err.cell),
          mean   |-> Converted(Per(cmean(data_series), per), climate, unit, decimals,
                               IF MeanIsCell(data_series) THEN err.cell ELSE err.mean),
          median |-> Converted(Per(cmed(data_series), per), climate, unit, decimals,
                               IF MedianIsCell(data_series) THEN err.cell
                               ELSE err.median)]

\* data_processing.py:36-84 for a sample of whole numbers.
calculate_stats(data_series, climate, unit, decimals) ==
    calculate_stats_float64(data_series, 1, climate, unit, decimals, Exact)

----------------------------------------------------------------------------
(* climate_data (data_processing.py) *)

\* data_processing.py:95-104: the header of the table.
stat_columns(unit) ==
    IF unit = "in"
    THEN <<"Min. (in)", "Max. (in)", "Arithmetic Mean (in)", "Median (in)">>
    ELSE IF unit = "mm"
    THEN <<"Min. (mm)", "Max. (mm)", "Arithmetic Mean (mm)", "Median (mm)">>
    ELSE IF unit = "f"
    THEN <<"Min. (F)", "Max. (F)", "Arithmetic Mean (F)", "Median (F)">>
    ELSE IF unit = "c"
    THEN <<"Min. (C)", "Max. (C)", "Arithmetic Mean (C)", "Median (C)">>
    ELSE <<"Min.", "Max.", "Arithmetic Mean", "Median">>

fieldnames(unit) == <<"Filename", "Climate Variable", "Date">> \o stat_columns(unit)

\* The file names of the clipped rasters of the model.
Filenames == {"prism_ppt_25m_20200101_clip.tif", "prism_ppt_25m_20200102_clip.tif",
              "prism_ppt_25m_202002_clip.tif", "ppt_20200101_clip.tif"}

\* utils.py:73-110 on those names: the regex matches the first three
\* (variable ppt; the date 20200101 becomes "2020-01-01", 20200102
\* "2020-01-02", 202002 "2020-02") and not the last, for which parse_filename
\* raises ValueError at :108.
parse_filename(filename) ==
    IF filename = "prism_ppt_25m_20200101_clip.tif"
    THEN [ok |-> TRUE, variable |-> "ppt", formatted_date |-> <<1, 1>>]
    ELSE IF filename = "prism_ppt_25m_20200102_clip.tif"
    THEN [ok |-> TRUE, variable |-> "ppt", formatted_date |-> <<1, 2>>]
    ELSE IF filename = "prism_ppt_25m_202002_clip.tif"
    THEN [ok |-> TRUE, variable |-> "ppt", formatted_date |-> <<2>>]
    ELSE [ok |-> FALSE, variable |-> "", formatted_date |-> <<>>]

\* src.read(1) flattened in row-major order, as boolean indexing and
\* flatten() leave it.
RECURSIVE Flatten(_)
Flatten(grid) == IF grid = <<>> THEN <<>> ELSE Head(grid) \o Flatten(Tail(grid))

\* data_processing.py:129-142: whether a cell stays in the sample.  A NaN cell
\* differs from every number, so a numeric nodata value keeps it.
KeepsDefinedOnly(cell, nodata) ==
    IF nodata.kind = "none" THEN TRUE
    ELSE IF nodata.kind = "value" THEN cell # Num(nodata.v) /\ ~IsNaN(cell)
    ELSE ~IsNaN(cell)

\* Keeps with no cell excluded.
KeepsAll(cell, nodata) == TRUE

Keeps(cell, nodata) ==
    IF nodata.kind = "none" THEN TRUE
    ELSE IF nodata.kind = "value" THEN cell # Num(nodata.v)
    ELSE ~IsNaN(cell)

\* data_processing.py:125-126: clean_data, the scaled grid.
clean_data(r) ==
    [i \in 1..Len(r.grid) |->
        [j \in 1..Len(r.grid[i]) |->
            IF IsNaN(r.grid[i][j]) THEN NaN
            ELSE Num(Val(r.grid[i][j]) * r.scale + r.offset)]]

\* data_processing.py:129-143: the sample.  clean_data is never read after
\* :126: the mask and the sample are taken from data, the raw cells.
data_series(r) ==
    SelectSeq(Flatten(r.grid), LAMBDA c : Keeps(c, r.nodata))

\* data_processing.py:166-175: the row of a raster.
StatsRow(r, stats, formatted_date, climate, unit) ==
    LET cols == stat_columns(unit)
    IN  [c \in {"Filename", "Climate Variable", "Date"} \cup {cols[i] : i \in 1..4} |->
            IF c = "Filename" THEN r.name
            ELSE IF c = "Climate Variable" THEN climate
            ELSE IF c = "Date" THEN formatted_date
            ELSE IF c = cols[1] THEN stats.min
            ELSE IF c = cols[2] THEN stats.max
            ELSE IF c = cols[3] THEN stats.mean
            ELSE stats.median]

\* data_processing.py:114-194: one pass of the loop over clipped_rasters.
\* `opens` is whether rasterio.open succeeds; out is what became of the raster
\* and pc where climate_data stands after it.
climate_data_raster(file, r, opens, run) ==
    IF ~opens
    THEN [out |-> "open_error", pc |-> "raised", sample |-> <<>>, file |-> file]
    ELSE LET ds == data_series(r)
         IN  IF NoValidData(ds)
             THEN [out |-> "skip", pc |-> "loop", sample |-> ds, file |-> file]
             ELSE LET stats  == calculate_stats(ds, run.climate, run.unit, run.decimals)
                      parsed == parse_filename(r.name)
                  IN  IF ~parsed.ok
                      THEN [out |-> "parse_error", pc |-> "raised", sample |-> ds,
                            file |-> file]
                      ELSE [out |-> "row", pc |-> "loop", sample |-> ds,
                            file |-> [header |-> file.header,
                                      rows   |-> Append(file.rows,
                                                   StatsRow(r, stats, parsed.formatted_date,
                                                            run.climate, run.unit))]]

----------------------------------------------------------------------------
(* The statistics extractor run on a list of clipped rasters *)

\* The rounding of data_processing.py:608.
StatDecimals == 2

CellValues == {NaN, Num(-9), Num(2)}
Nodatas == {[kind |-> "none", v |-> 0], [kind |-> "nan", v |-> 0],
            [kind |-> "value", v |-> -9]}
ScaleOffsets == {<<1, 0>>, <<2, 0>>, <<1, 1>>}
\* Climate codes and units: precipitation, a temperature, a code that is
\* neither; the four units of unit_map and one it does not know.
Runs == {[climate |-> cu[1], unit |-> cu[2], decimals |-> StatDecimals] :
            cu \in {<<"ppt", "mm">>, <<"ppt", "in">>, <<"ppt", "f">>, <<"ppt", "cm">>,
                    <<"tmean", "f">>, <<"tmean", "c">>, <<"tmean", "in">>,
                    <<"vpdmax", "mm">>}}

Shapes == {hw \in (1..MaxCells) \X (1..MaxCells) : hw[1] * hw[2] <= MaxCells}
Grids == UNION {[1..hw[1] -> [1..hw[2] -> CellValues]] : hw \in Shapes}

\* Every raster of at most MaxCells cells.
AllRasters ==
    {[name |-> n, grid |-> g, nodata |-> nd, scale |-> so[1], offset |-> so[2]] :
        n \in Filenames, g \in Grids, nd \in Nodatas, so \in ScaleOffsets}

\* The one-cell rasters with the sentinel as nodata and no scaling: one is all
\* nodata, one all NaN, one has data.
PlainRasters ==
    {r \in AllRasters : /\ Len(r.grid) = 1 /\ Len(r.grid[1]) = 1
                        /\ r.nodata.kind = "value"
                        /\ r.scale = 1 /\ r.offset = 0}

\* The rasters tried at a position of clipped_rasters: every raster at the
\* first, the one-cell rasters after it (the passes of the loop share nothing
\* but the table they append to).
RastersAt(position) == IF position = 1 THEN AllRasters ELSE PlainRasters

\* A table left by an earlier run.
StaleFile ==
    [header |-> <<"Filename">>, rows |-> <<[c \in {"Filename"} |-> "old.tif"]>>]

InitClimate ==
    /\ csv \in {EmptyFile, StaleFile}
    /\ ClimateIdle
    /\ NapiPending
    /\ dp = NoDp
    /\ clip = NoClip
    /\ stat_call = NoStats
    /\ ante = NoAnte

\* data_processing.py:91-112: the directory is made, the file opened for
\* writing (which empties it) and the header written; either may fail, and the
\* error is raised to the caller.
ClimateOpenOf(runs) ==
    /\ cd_pc = "idle"
    /\ \E run \in runs, ok \in BOOLEAN :
         /\ cd_run' = run
         /\ IF ok
            THEN /\ csv' = [header |-> fieldnames(run.unit), rows |-> <<>>]
                 /\ cd_pc' = "loop"
            ELSE /\ csv' = csv
                 /\ cd_pc' = "raised"
    /\ UNCHANGED <<cd_log, raster, sample, cd_list>>
    /\ UNCHANGED napiVars
    /\ UNCHANGED dp
    /\ UNCHANGED clip
    /\ UNCHANGED callVars

\* ClimateOpen with the file opened for appending.
ClimateOpenAppend ==
    /\ cd_pc = "idle"
    /\ \E run \in Runs, ok \in BOOLEAN :
         /\ cd_run' = run
         /\ IF ok
            THEN /\ csv' = [header |-> fieldnames(run.unit), rows |-> csv.rows]
                 /\ cd_pc' = "loop"
            ELSE /\ csv' = csv
                 /\ cd_pc' = "raised"
    /\ UNCHANGED <<cd_log, raster, sample, cd_list>>
    /\ UNCHANGED napiVars
    /\ UNCHANGED dp
    /\ UNCHANGED clip
    /\ UNCHANGED callVars

ClimateOpen == ClimateOpenOf(Runs)

\* data_processing.py:113-194: the next raster of the list, which is one of
\* `rasters`.
ClimateRasterOf(rasters) ==
    /\ cd_pc = "loop"
    /\ Len(cd_log) < MaxRasters
    /\ \E r \in rasters, opens \in BOOLEAN :
         LET it == climate_data_raster(csv, r, opens, cd_run)
         IN  /\ csv' = it.file
             /\ cd_pc' = it.pc
             /\ cd_log' = Append(cd_log, it.out)
             /\ raster' = r
             /\ sample' = it.sample
             /\ cd_list' = Append(cd_list, r.name)
    /\ UNCHANGED cd_run
    /\ UNCHANGED napiVars
    /\ UNCHANGED dp
    /\ UNCHANGED clip
    /\ UNCHANGED callVars

ClimateRaster == ClimateRasterOf(RastersAt(Len(cd_log) + 1))

\* The list is exhausted: the file is closed and climate_data returns.
ClimateReturn ==
    /\ cd_pc = "loop"
    /\ cd_pc' = "done"
    /\ UNCHANGED <<csv, cd_run, cd_log, raster, sample, cd_list>>
    /\ UNCHANGED napiVars
    /\ UNCHANGED dp
    /\ UNCHANGED clip
    /\ UNCHANGED callVars

NextClimate == ClimateOpen \/ ClimateRaster \/ ClimateReturn

SpecClimate == InitClimate /\ [][NextClimate]_vars

----------------------------------------------------------------------------
(* data_processing: the statistics stage and the antecedent index step *)

\* napi.py:111-115: the presets of ante_conditions.
PresetK == <<49, 50>>
PresetDailyDays == 30
PresetMonthlyDays == 3
PresetDays(resolution) ==
    IF resolution = "daily" THEN PresetDailyDays ELSE PresetMonthlyDays

\* data_processing.py:326-348: the climate codes data_processing accepts.
ValidClimates == {"ppt", "tmean", "tmax", "tmin", "tdmean"}

\* data_processing.py:614: the precipitation column the second pass asks for.
ppt_field_of(unit) ==
    IF unit = "mm" THEN "Arithmetic Mean (mm)" ELSE "Arithmetic Mean (in)"

\* The clipped rasters of the two-raster scenario: five cells each, -9999 the
\* nodata value.
Nodata9999 == [kind |-> "value", v |-> -9999]
ScenarioFirst ==
    [name |-> "prism_ppt_25m_20200101_clip.tif",
     grid |-> <<<<Num(10), Num(20), Num(30), Num(40), Num(50)>>>>,
     nodata |-> Nodata9999, scale |-> 1, offset |-> 0]
ScenarioSecond ==
    [name |-> "prism_ppt_25m_20200102_clip.tif",
     grid |-> <<<<Num(100), Num(0), Num(-9999), Num(5), Num(15)>>>>,
     nodata |-> Nodata9999, scale |-> 1, offset |-> 0]

OneCell(name, v) ==
    [name |-> name, grid |-> <<<<Num(v)>>>>, nodata |-> Nodata9999,
     scale |-> 1, offset |-> 0]

\* The rasters the earlier stages of data_processing hand to climate_data:
\* the two of the scenario, and one-cell rasters: a day of 3 mm and the next
\* of 13 mm, a dry day, a raster that is all nodata, a monthly raster and one
\* whose name parse_filename does not match.
PipelineRasters ==
    {ScenarioFirst, ScenarioSecond,
     OneCell("prism_ppt_25m_20200101_clip.tif", 3),
     OneCell("prism_ppt_25m_20200102_clip.tif", 13),
     OneCell("prism_ppt_25m_20200102_clip.tif", 0),
     OneCell("prism_ppt_25m_20200101_clip.tif", -9999),
     OneCell("prism_ppt_25m_202002_clip.tif", 2),
     OneCell("ppt_20200101_clip.tif", 2)}

\* The decay constants typed at the prompt of napi.py:119 (any number is
\* accepted after the warning of :126-130).
PipelineKs == {<<9, 10>>, <<7, 10>>, <<0, 1>>}

\* data_processing is called with a climate code, a unit and a resolution.
InitPipeline ==
    /\ csv \in {EmptyFile, StaleFile}
    /\ ClimateIdle
    /\ NapiPending
    /\ \E run \in Runs, resolution \in Resolutions :
         dp = [NoDp EXCEPT !.pc = "main", !.run = run, !.resolution = resolution]
    /\ clip = NoClip
    /\ stat_call = NoStats
    /\ ante = NoAnte

\* main.py:63-104: for 'ppt' the user is asked whether to calculate the
\* index; 'y' or 'yes' moves the start date back by 30 days (daily) or 3
\* months (monthly).  The answer is passed to data_processing as `ante`
\* (:107); for the other climate codes `ante` stays ''.
MainPrompt ==
    /\ dp.pc = "main"
    /\ \E answer \in IF dp.run.climate = "ppt" THEN {"y", "n"} ELSE {""} :
         dp' = [dp EXCEPT !.pc = "start", !.answer = answer,
                          !.moved_back = IF answer = "y" THEN PresetDays(dp.resolution)
                                         ELSE 0]
    /\ UNCHANGED <<csv, napiVars, climVars, clip, callVars>>

\* data_processing.py:326-348: an unknown climate code is reported and
\* data_processing returns.  The stages that follow (download, unzip, sort,
\* clip) deliver processed_rasters, the list climate_data is called with.
DpValidate ==
    /\ dp.pc = "start"
    /\ dp' = [dp EXCEPT !.pc = IF dp.run.climate \in ValidClimates
                               THEN "save" ELSE "returned"]
    /\ UNCHANGED <<csv, napiVars, climVars, clip, callVars>>

\* data_processing.py:609: climate_data runs.
DpClimateOpen == dp.pc = "save" /\ ClimateOpenOf({dp.run})
DpClimateRaster == dp.pc = "save" /\ ClimateRasterOf(PipelineRasters)
DpClimateReturn == dp.pc = "save" /\ ClimateReturn

\* DpAfterSave with the antecedent index step for every climate code.
DpAfterSaveAnyClimate ==
    /\ dp.pc = "save"
    /\ cd_pc \in {"done", "raised"}
    /\ dp' = [dp EXCEPT !.pc = IF cd_pc = "raised" THEN "raised" ELSE "napi"]
    /\ UNCHANGED <<csv, napiVars, climVars, clip, callVars>>

\* data_processing.py:609-627, 629-635: an exception of climate_data is logged
\* and raised again; after its return the antecedent index step follows for
\* 'ppt', and the run is reported complete for every other code.
DpAfterSave ==
    /\ dp.pc = "save"
    /\ cd_pc \in {"done", "raised"}
    /\ dp' = [dp EXCEPT !.pc = IF cd_pc = "raised" THEN "raised"
                               ELSE IF dp.run.climate = "ppt" THEN "napi"
                               ELSE "complete"]
    /\ UNCHANGED <<csv, napiVars, climVars, clip, callVars>>

\* napi.py:110-183 called at data_processing.py:621, and :623-627 after it.
\* The decay constant is the preset, a number typed at the prompt, or text
\* float() rejects: that ValueError is raised outside the try of :123 and
\* reaches data_processing, which raises.  The days are the preset or a
\* positive number typed at the prompt.  What calculate_napi returns is
\* logged and dropped: ante_conditions returns None either way, and
\* data_processing reports the step and the run complete.  It also returns
\* None, without the call, when float() rejects the text typed after the
\* warning (:138, caught at :178).  This is the dialogue taken as a whole,
\* by its outcomes; SpecAnte goes through it prompt by prompt.
AnteConditions ==
    /\ dp.pc = "napi"
    /\ \/ /\ dp' = [dp EXCEPT !.pc = "raised", !.ante = TRUE]
          /\ UNCHANGED <<csv, napiVars>>
       \/ /\ dp' = [dp EXCEPT !.pc = "complete", !.ante = TRUE]
          /\ UNCHANGED <<csv, napiVars>>
       \/ LET pf     == ppt_field_of(dp.run.unit)
              res    == dp.resolution
              parsed == /\ ColumnsPresent(csv, pf, "Date")
                        /\ \A i \in 1..Len(csv.rows) : Parses(csv.rows[i]["Date"], res)
              orders == IF parsed
                        THEN SortOrders([i \in 1..Len(csv.rows) |->
                                            SetCell(csv.rows[i], "Date",
                                                    ToDatetime(csv.rows[i]["Date"]))], "Date")
                        ELSE {[i \in 1..Len(csv.rows) |-> i]}
          IN  \E order \in orders :
                \E k \in {PresetK} \cup PipelineKs,
                   N \in {PresetDays(res)} \cup (1..MaxN) :
                 \E err \in FloatErrors(csv, k, N, pf, "Date", res,
                                        dp.run.decimals, order) :
                  LET out == calculate_napi(csv, k, N, pf, "Date", res,
                                            dp.run.decimals, order, err)
                  IN  /\ csv' = out.file
                      /\ napi_ret' = out.ret
                      /\ napi_call' = [k |-> k, N |-> N, ppt_field |-> pf,
                                       date_field |-> "Date", resolution |-> res,
                                       decimals |-> dp.run.decimals]
                      /\ csv_before' = csv
                      /\ dp' = [dp EXCEPT !.pc = "complete", !.ante = TRUE]
    /\ UNCHANGED climVars
    /\ UNCHANGED clip
    /\ UNCHANGED callVars

NextPipeline ==
    \/ MainPrompt
    \/ DpValidate
    \/ DpClimateOpen
    \/ DpClimateRaster
    \/ DpClimateReturn
    \/ DpAfterSave
    \/ AnteConditions

SpecPipeline == InitPipeline /\ [][NextPipeline]_vars

----------------------------------------------------------------------------
(* data_processing: the stages before the statistics *)

\* data_processing is called with a climate code it accepts, and asks whether
\* to download (data_processing.py:364).
InitStages ==
    /\ csv = EmptyFile
    /\ ClimateIdle
    /\ NapiPending
    /\ clip = NoClip
    /\ stat_call = NoStats
    /\ ante = NoAnte
    /\ \E climate \in {"ppt", "tmean"}, resolution \in Resolutions :
         dp = [NoDp EXCEPT !.pc = "download",
                           !.run = [climate |-> climate, unit |-> "mm",
                                    decimals |-> StatDecimals],
                           !.resolution = resolution]

\* data_processing.py:362-436, one pass of the prompt loop.  After 'y' the
\* dates of the range are fetched one by one: prism_download returns the
\* file, returns nothing, or raises.  The monthly branch counts the months
\* with relativedelta (:407), a name data_processing.py does not import, so
\* a monthly range that is not empty raises NameError.  After 'n' the stage
\* is skipped; any other answer asks again.
DpDownload ==
    /\ dp.pc = "download"
    /\ \/ \E requested \in 0..MaxRasters :
            IF dp.resolution = "monthly" /\ requested > 0
            THEN dp' = [dp EXCEPT !.download = "y", !.pc = "raised",
                                  !.fault = "NameError: relativedelta"]
            ELSE \/ \E got \in 0..requested :
                      dp' = [dp EXCEPT !.download = "y", !.downloaded = got,
                                       !.stages = Append(@, "download"),
                                       !.pc = "move"]
                 \/ /\ requested > 0
                    /\ dp' = [dp EXCEPT !.download = "y", !.pc = "raised",
                                        !.fault = "download"]
       \/ dp' = [dp EXCEPT !.download = "n", !.pc = "move"]
       \/ dp' = [dp EXCEPT !.download = "invalid"]
    /\ UNCHANGED <<csv, napiVars, climVars, clip, callVars>>

\* data_processing.py:438-476: the step is announced; the files fetched are
\* moved to the downloads directory, or left where they are when that is the
\* working directory; with no file the warning is logged.
DpMove ==
    /\ dp.pc = "move"
    /\ dp' = [dp EXCEPT !.stages = Append(@, "move"), !.pc = "restart"]
    /\ UNCHANGED <<csv, napiVars, climVars, clip, callVars>>

\* data_processing.py:477-489: `download in ('y', 'yes') and download_files
\* is not None`.  download_files is a name the module does not define (the
\* list is downloaded_files): after 'y' the test raises NameError, which
\* :629-634 log and raise again, and the prompt of :479 is never shown;
\* after 'n' the test is False without reading the name.
DpRestartPrompt ==
    /\ dp.pc = "restart"
    /\ dp' = IF dp.download = "y"
             THEN [dp EXCEPT !.pc = "raised", !.fault = "NameError: download_files"]
             ELSE [dp EXCEPT !.pc = "extract"]
    /\ UNCHANGED <<csv, napiVars, climVars, clip, callVars>>

\* data_processing.py:491-560: after a download the archives are extracted
\* and the files sorted; otherwise the user is asked whether to extract
\* (which sorts as well) and then whether to sort.
DpExtractSort ==
    /\ dp.pc = "extract"
    /\ \/ /\ dp.download = "y"
          /\ dp' = [dp EXCEPT !.stages = @ \o <<"extract", "sort">>, !.pc = "clip"]
       \/ /\ dp.download = "n"
          /\ \E extract \in BOOLEAN, sort \in BOOLEAN :
               dp' = [dp EXCEPT
                        !.stages = @ \o (IF extract THEN <<"extract", "sort">> ELSE <<>>)
                                     \o (IF sort THEN <<"sort">> ELSE <<>>),
                        !.pc = "clip"]
    /\ UNCHANGED <<csv, napiVars, climVars, clip, callVars>>

\* data_processing.py:562-602: after 'y' the rasters are clipped (raster_clip
\* may raise) or the warning about the shapefile is logged; after 'n' the
\* unclipped rasters are taken.  The statistics stage follows.
DpClipPrompt ==
    /\ dp.pc = "clip"
    /\ \/ dp' = [dp EXCEPT !.stages = Append(@, "clip"), !.pc = "save"]
       \/ dp' = [dp EXCEPT !.stages = Append(@, "clip"), !.pc = "raised",
                           !.fault = "clip"]
       \/ dp' = [dp EXCEPT !.pc = "save"]
    /\ UNCHANGED <<csv, napiVars, climVars, clip, callVars>>

NextStages == DpDownload \/ DpMove \/ DpRestartPrompt \/ DpExtractSort \/ DpClipPrompt

SpecStages == InitStages /\ [][NextStages]_vars

----------------------------------------------------------------------------
(* ante_conditions called on its own (napi.py) *)

\* 0 < k_value < 1 of napi.py:125 for the fraction k.
InsideUnit(k) == 0 < k[1] /\ k[1] < k[2]

\* The numbers typed at the prompts for the decay constant (napi.py:119,
\* :138): 0.5, and 2, 0, -0.5 and 1, which are not between 0 and 1.
TypedKs == {<<1, 2>>, <<2, 1>>, <<0, 1>>, <<-1, 2>>, <<1, 1>>}

\* The whole numbers typed at the prompt for the window (napi.py:148, :156).
TypedDays == {-1, 0} \cup (1..MaxN)

\* The table ante_conditions is pointed at: up to two rows with the date and
\* the precipitation column of a run in millimetres.
AnteTables(resolution) ==
    UNION {{[header |-> TableHeader,
             rows   |-> [i \in 1..n |->
                           [c \in {"Filename", "Date", "Arithmetic Mean (mm)"} |->
                               IF c = "Filename" THEN Num(i)
                               ELSE IF c = "Date" THEN cells[i][1]
                               ELSE cells[i][2]]]] :
              cells \in [1..n -> DateCells(resolution) \X {Num(0), Num(1)}]} :
           n \in 0..2}

\* napi.py:110-116: the presets are set and the first prompt is shown.
InitAnte ==
    /\ ClimateIdle
    /\ NapiPending
    /\ dp = NoDp
    /\ clip = NoClip
    /\ stat_call = NoStats
    /\ \E res \in Resolutions :
         /\ csv \in AnteTables(res)
         /\ ante = [NoAnte EXCEPT !.pc = "k_prompt", !.resolution = res,
                                  !.k_value = PresetK, !.ante_days = PresetDays(res)]

\* napi.py:117-122: 'n' or 'no' asks for a number, which float() takes or
\* rejects with a ValueError that leaves ante_conditions; any other answer
\* keeps the preset.
AnteKPrompt ==
    /\ ante.pc = "k_prompt"
    /\ \/ ante' = [ante EXCEPT !.pc = "k_loop"]
       \/ \E k \in TypedKs : ante' = [ante EXCEPT !.pc = "k_loop", !.k_value = k]
       \/ ante' = [ante EXCEPT !.pc = "raised"]
    /\ UNCHANGED <<csv, napiVars, climVars, dp, clip, stat_call>>

\* The loop of napi.py:124-139 taking every number as it comes.
AnteKLoopTakesAny ==
    /\ ante.pc = "k_loop"
    /\ ante' = [ante EXCEPT !.pc = "window"]
    /\ UNCHANGED <<csv, napiVars, climVars, dp, clip, stat_call>>

\* napi.py:124-139, one pass of the loop: a constant between 0 and 1 goes on
\* to the window; for any other the warning is shown and the user asked:
\* 'y' or 'yes' keeps the constant, 'n' or 'no' asks for another number
\* (a ValueError of float() is caught at :178 and ante_conditions returns),
\* anything else asks again.
AnteKLoop ==
    /\ ante.pc = "k_loop"
    /\ IF InsideUnit(ante.k_value)
       THEN ante' = [ante EXCEPT !.pc = "window"]
       ELSE \/ ante' = [ante EXCEPT !.warned = TRUE, !.confirmed = TRUE,
                                    !.pc = "window"]
            \/ \E k \in TypedKs :
                 ante' = [ante EXCEPT !.warned = FALSE, !.k_value = k]
            \/ ante' = [ante EXCEPT !.warned = TRUE, !.pc = "returned"]
            \/ ante' = [ante EXCEPT !.warned = TRUE]
    /\ UNCHANGED <<csv, napiVars, climVars, dp, clip, stat_call>>

\* napi.py:161-172: calculate_napi is called on the table; what it returns
\* is logged and the loop left either way.
NapiCalled(k, N, pf, dfl, res, dec) ==
    LET parsed == /\ ColumnsPresent(csv, pf, dfl)
                  /\ \A i \in 1..Len(csv.rows) : Parses(csv.rows[i][dfl], res)
        orders == IF parsed
                  THEN SortOrders([i \in 1..Len(csv.rows) |->
                                      SetCell(csv.rows[i], dfl,
                                              ToDatetime(csv.rows[i][dfl]))], dfl)
                  ELSE {[i \in 1..Len(csv.rows) |-> i]}
    IN  \E order \in orders :
          \E err \in FloatErrors(csv, k, N, pf, dfl, res, dec, order) :
            LET out == calculate_napi(csv, k, N, pf, dfl, res, dec, order, err)
            IN  /\ csv' = out.file
                /\ napi_ret' = out.ret
                /\ napi_call' = [k |-> k, N |-> N, ppt_field |-> pf,
                                 date_field |-> dfl, resolution |-> res,
                                 decimals |-> dec]
                /\ csv_before' = csv

\* One pass of the loop of napi.py:141-177 with ante_days as the answer left
\* it and ante_num as what the answer was: when ante_days is positive
\* calculate_napi is called and the loop left, otherwise the loop goes round.
AnteWindowPass(ante_days, ante_num) ==
    IF ante_days > 0
    THEN /\ ante' = [ante EXCEPT !.pc = "called", !.ante_days = ante_days,
                                 !.ante_num = ante_num]
         /\ NapiCalled(ante.k_value, ante_days, "Arithmetic Mean (mm)", "Date",
                       ante.resolution, StatDecimals)
    ELSE /\ ante' = [ante EXCEPT !.ante_days = ante_days, !.ante_num = ante_num]
         /\ UNCHANGED <<csv, napiVars>>

\* napi.py:141-177, one pass of the loop: 'n' or 'no' asks for a whole
\* number, which becomes ante_days (a ValueError of int() is caught at :175
\* and the loop goes round); any other answer leaves ante_days as it is.
AnteWindow ==
    /\ ante.pc = "window"
    /\ \/ \E days \in TypedDays : AnteWindowPass(days, "custom")
       \/ /\ ante' = [ante EXCEPT !.ante_num = "invalid"]
          /\ UNCHANGED <<csv, napiVars>>
       \/ AnteWindowPass(ante.ante_days, "preset")
    /\ UNCHANGED <<climVars, dp, clip, stat_call>>

NextAnte == AnteKPrompt \/ AnteKLoop \/ AnteWindow

SpecAnte == InitAnte /\ [][NextAnte]_vars

----------------------------------------------------------------------------
(* calculate_stats called on its own *)

\* The longest sample.
MaxSample == 3

\* The samples are float64 values with three decimals, counted in
\* thousandths.
SampleDigits == 3
SamplePer == Pow(10, SampleDigits)

\* Values of a sample, in thousandths: 0.025 and 0.045 lie midway between
\* two hundredths, 0.127 mm is 0.005 in, 0.025 C is 32.045 F, and 1.000.
\* None of them is a binary fraction, so float64 holds none of them exactly.
SampleValues == {NaN, Num(25), Num(45), Num(127), Num(1000)}

StatSamples == UNION {[1..n -> SampleValues] : n \in 0..MaxSample}

\* The sides on which the float64 values can miss.
StatErrors ==
    {[cell |-> c, mean |-> m, median |-> d] : c \in {-1, 0, 1}, m \in {-1, 0, 1},
                                               d \in {-1, 0, 1}}

InitStats ==
    /\ csv = EmptyFile
    /\ ClimateIdle
    /\ NapiPending
    /\ dp = NoDp
    /\ clip = NoClip
    /\ ante = NoAnte
    /\ \E ds \in StatSamples, run \in Runs :
         stat_call = [NoStats EXCEPT !.pc = "called", !.data_series = ds,
                                     !.climate = run.climate, !.unit = run.unit,
                                     !.decimals = run.decimals]

\* data_processing.py:36-84: the call returns its record.
CalculateStats ==
    /\ stat_call.pc = "called"
    /\ \E err \in StatErrors :
         stat_call' =
             [stat_call EXCEPT
                 !.pc = "returned",
                 !.result = calculate_stats_float64(stat_call.data_series, SamplePer,
                                                    stat_call.climate, stat_call.unit,
                                                    stat_call.decimals, err)]
    /\ UNCHANGED <<csv, napiVars, climVars, dp, clip, ante>>

NextStats == CalculateStats

SpecStats == InitStats /\ [][NextStats]_vars

----------------------------------------------------------------------------
(* raster_clip (data_processing.py) *)

Last(s) == s[Len(s)]

\* A file name is written as its fields between '_', each field as its
\* pieces between '.': prism_ppt_us_25m_20200101.tif is
\* <<<<"prism">>, <<"ppt">>, <<"us">>, <<"25m">>, <<"20200101", "tif">>>>.
\* The paths handed to raster_clip: rasters of two regions for the same day,
\* the next day, a month with an upper-case suffix, a name of six fields, a
\* name of fewer than five fields, and a file that is not a raster.
ClipInputs ==
    { <<<<"prism">>, <<"ppt">>, <<"us">>, <<"25m">>, <<"20200101", "tif">>>>,
      <<<<"prism">>, <<"ppt">>, <<"ak">>, <<"25m">>, <<"20200101", "tif">>>>,
      <<<<"prism">>, <<"ppt">>, <<"us">>, <<"25m">>, <<"20200102", "tif">>>>,
      <<<<"prism">>, <<"ppt">>, <<"us">>, <<"25m">>, <<"202002", "TIF">>>>,
      <<<<"prism">>, <<"ppt">>, <<"us">>, <<"25m">>, <<"20200103">>, <<"v2", "tif">>>>,
      <<<<"ppt">>, <<"20200101", "tif">>>>,
      <<<<"notes", "txt">>>> }

\* str.lower on the suffixes in use.
lower(s) == IF s = "TIF" THEN "tif" ELSE s

\* data_processing.py:224: raster.lower().endswith('.tif').
IsTif(path) == Len(Last(path)) >= 2 /\ lower(Last(Last(path))) = "tif"

\* os.path.splitext(filename)[0] of a name that ends in a suffix: the name
\* without its last piece.
Stem(filename) ==
    [filename EXCEPT ![Len(filename)] = SubSeq(@, 1, Len(@) - 1)]

\* The whole source file name, region included, with the clip suffix.
rasterNameKeepsRegion(filename) == Stem(filename) \o <<<<"clip", "tif">>>>

\* data_processing.py:247-259: of a name of five or more fields the first,
\* second and fourth are kept, and of the fifth what stands before its first
\* '.'; a shorter name is kept up to its suffix.
rasterName(filename) ==
    LET parts == filename IN
    IF Len(parts) >= 5
    THEN <<parts[1], parts[2], parts[4], <<parts[5][1]>>, <<"clip", "tif">>>>
    ELSE Stem(filename) \o <<<<"clip", "tif">>>>

\* data_processing.py:256-259: the warning is logged for the shorter names.
WarnsUnparsed(filename) == Len(filename) < 5

\* One unit, as a fraction.
One == <<1, 1>>
Zero == <<0, 1>>
Tenth == <<1, 10>>

\* The raster rasterio.open finds at a path: the monthly file holds scaled
\* integers, the others floating-point values.
SourceOf(path) ==
    IF Last(Last(path)) = "TIF"
    THEN [driver |-> "GTiff", dtype |-> "int16", nodata |-> Num(-9999), count |-> 1,
          height |-> 2, width |-> 2, crs |-> "EPSG:4269", transform |-> "source",
          scales |-> Tenth, offsets |-> Zero]
    ELSE [driver |-> "GTiff", dtype |-> "float32", nodata |-> Num(-9999), count |-> 1,
          height |-> 2, width |-> 2, crs |-> "EPSG:4269", transform |-> "source",
          scales |-> One, offsets |-> Zero]

\* rasterio's src.meta: driver, dtype, nodata, width, height, count, crs and
\* transform of the dataset, and nothing else.
meta(src) ==
    [driver |-> src.driver, dtype |-> src.dtype, nodata |-> src.nodata,
     width |-> src.width, height |-> src.height, count |-> src.count,
     crs |-> src.crs, transform |-> src.transform]

\* data_processing.py:238-246: the copy of src.meta with driver, height,
\* width and transform replaced by those of the masked array; rasterio.open
\* in 'w' mode creates the dataset from these keys, and a dataset created
\* without scales and offsets has scale 1 and offset 0.
metadata(src, shape) ==
    LET m == [meta(src) EXCEPT !.driver = "GTiff", !.height = shape[1],
                               !.width = shape[2], !.transform = "cropped"]
    IN [driver |-> m.driver, dtype |-> m.dtype, nodata |-> m.nodata,
        width |-> m.width, height |-> m.height, count |-> m.count,
        crs |-> m.crs, transform |-> m.transform,
        scales |-> One, offsets |-> Zero]

\* The extents mask(..., crop=True) can cut out of a source raster: (height,
\* width) of the bounding box of the boundary.
CropShapes == {<<1, 1>>, <<1, 2>>}

\* rasterio.open(rasterPath, 'w') and dest.write: the file of that name now
\* holds the clip of `path`, whatever it held before.
Written(store, name, path, profile) ==
    {f \in store : f.name # name}
        \cup {[name |-> name, source |-> path, profile |-> profile]}

\* A file left in the clipped directory by an earlier run.
EarlierFile ==
    [name |-> <<<<"prism">>, <<"ppt">>, <<"25m">>, <<"20200101">>, <<"clip", "tif">>>>,
     source |-> <<<<"earlier", "run">>>>,
     profile |-> metadata(SourceOf(<<<<"earlier", "run">>>>), <<1, 1>>)]

\* The clipped directory may hold files of an earlier run (makedirs with
\* exist_ok at data_processing.py:574).
InitClip ==
    /\ csv = EmptyFile
    /\ ClimateIdle
    /\ NapiPending
    /\ dp = NoDp
    /\ stat_call = NoStats
    /\ ante = NoAnte
    /\ \E store \in {{}, {EarlierFile}} :
         clip = [NoClip EXCEPT !.store = store]

\* data_processing.py:212-222: the shapefile is read; a failure is raised.
ClipStart ==
    /\ clip.pc = "idle"
    /\ \E ok \in BOOLEAN, shape \in CropShapes :
         clip' = [clip EXCEPT !.pc = IF ok THEN "loop" ELSE "raised",
                              !.shape = IF ok THEN shape ELSE @]
    /\ UNCHANGED <<csv, napiVars, climVars, dp, callVars>>

\* The loop body that logs a failed raster and goes on to the next.
ClipNextSkipsFailed ==
    /\ clip.pc = "loop"
    /\ Len(clip.inputs) < MaxRasters
    /\ \E path \in ClipInputs, ok \in BOOLEAN :
         clip' = IF ~IsTif(path)
                 THEN [clip EXCEPT !.inputs = Append(@, path),
                                   !.log = Append(@, "skipped")]
                 ELSE IF ~ok
                 THEN [clip EXCEPT !.inputs = Append(@, path),
                                   !.log = Append(@, "failed")]
                 ELSE [clip EXCEPT !.inputs = Append(@, path),
                                   !.log = Append(@, "clipped"),
                                   !.warnings = IF WarnsUnparsed(path)
                                                THEN @ \cup {path} ELSE @,
                                   !.list = Append(@, rasterName(path)),
                                   !.store = Written(@, rasterName(path), path,
                                                     metadata(SourceOf(path), clip.shape))]
    /\ UNCHANGED <<csv, napiVars, climVars, dp, callVars>>

\* data_processing.py:223-275: the next input.  One that is not a .tif is
\* logged and passed over; a raster that cannot be opened, masked or written
\* raises; otherwise its clip is written under rasterName and the path of
\* that file is appended to the list.
ClipNext ==
    /\ clip.pc = "loop"
    /\ Len(clip.inputs) < MaxRasters
    /\ \E path \in ClipInputs, ok \in BOOLEAN :
         clip' = IF ~IsTif(path)
                 THEN [clip EXCEPT !.inputs = Append(@, path),
                                   !.log = Append(@, "skipped")]
                 ELSE IF ~ok
                 THEN [clip EXCEPT !.inputs = Append(@, path),
                                   !.log = Append(@, "failed"),
                                   !.pc = "raised"]
                 ELSE [clip EXCEPT !.inputs = Append(@, path),
                                   !.log = Append(@, "clipped"),
                                   !.warnings = IF WarnsUnparsed(path)
                                                THEN @ \cup {path} ELSE @,
                                   !.list = Append(@, rasterName(path)),
                                   !.store = Written(@, rasterName(path), path,
                                                     metadata(SourceOf(path), clip.shape))]
    /\ UNCHANGED <<csv, napiVars, climVars, dp, callVars>>

\* data_processing.py:278-279: the list is returned.
ClipReturn ==
    /\ clip.pc = "loop"
    /\ clip' = [clip EXCEPT !.pc = "done"]
    /\ UNCHANGED <<csv, napiVars, climVars, dp, callVars>>

NextClip == ClipStart \/ ClipNext \/ ClipReturn

SpecClip == InitClip /\ [][NextClip]_vars

----------------------------------------------------------------------------
(* What the properties talk about, stated from the table before the call   *)
(* (csv_before), the table after it (csv) and the arguments (napi_call).   *)

RECURSIVE SumFn(_, _)
SumFn(f, S) ==
    IF S = {} THEN 0
    ELSE LET x == CHOOSE y \in S : TRUE
         IN  f[x] + SumFn(f, S \ {x})

Returned == napi_ret # "pending"
ReturnedTrue == napi_ret = "True"

ColumnsOf(file) == {file.header[i] : i \in 1..Len(file.header)}

\* The call got as far as the computation: both columns are there and every
\* date of the table reads under the resolution's format.
Computes ==
    /\ Returned
    /\ napi_call.ppt_field \in ColumnsOf(csv_before)
    /\ napi_call.date_field \in ColumnsOf(csv_before)
    /\ \A i \in 1..Len(csv_before.rows) :
          Len(csv_before.rows[i][napi_call.date_field])
             = (IF napi_call.resolution = "daily" THEN 2 ELSE 1)

\* The precipitation column of the table before the call: the defined cells,
\* their sum and their number.
DefinedPpt == {i \in 1..Len(csv_before.rows) :
                  csv_before.rows[i][napi_call.ppt_field] # NaN}
PptTotal == SumFn([i \in DefinedPpt |-> csv_before.rows[i][napi_call.ppt_field][1]],
                  DefinedPpt)
MeanIsZero == DefinedPpt # {} /\ PptTotal = 0
MeanIsNonZero == DefinedPpt # {} /\ PptTotal # 0

\* The sum of k^j over j = 1..N vanishes exactly when k = 0, or k = -1 and N
\* is even.
WeightsVanish ==
    \/ napi_call.k[1] = 0
    \/ napi_call.k[1] = -napi_call.k[2] /\ napi_call.N % 2 = 0

\* Row positions count from 1: the row of 0-based index i is at position i + 1.
Index(pos) == pos - 1

PptAfter(pos) == csv.rows[pos][napi_call.ppt_field]
WindowDefined(pos) == \A j \in 1..napi_call.N : PptAfter(pos - j) # NaN

LabelOf(row) == IF "Conditions" \in DOMAIN row THEN row["Conditions"] ELSE ""

----------------------------------------------------------------------------
(* C1 *)

\* C1 as stated: after calculate_napi returns with mean(ppt) # 0, every row of
\* index < N has an undefined NAPI and every row of index >= N a defined one,
\* whatever the decay constant.
C1_AsStated ==
    (ReturnedTrue /\ MeanIsNonZero) =>
        \A pos \in 1..Len(csv.rows) :
            IF Index(pos) < napi_call.N
            THEN csv.rows[pos]["NAPI"] = NaN
            ELSE csv.rows[pos]["NAPI"] # NaN

\* C1 (amended): after calculate_napi returns with mean(ppt) # 0, every row of
\* index < N has an undefined NAPI; a row of index >= N has a defined NAPI
\* exactly when the weights k^1..k^N do not sum to zero and none of the N
\* rows before it has an undefined precipitation value.
C1_WarmUpRowsUndefined ==
    (ReturnedTrue /\ MeanIsNonZero) =>
        \A pos \in 1..Len(csv.rows) :
            IF Index(pos) < napi_call.N
            THEN csv.rows[pos]["NAPI"] = NaN
            ELSE (csv.rows[pos]["NAPI"] # NaN)
                    <=> (~WeightsVanish /\ WindowDefined(pos))

C1_Witness ==
    /\ ReturnedTrue /\ MeanIsNonZero
    /\ napi_call.N = 2
    /\ Len(csv.rows) = 3
    /\ csv.rows[3]["NAPI"] # NaN
    /\ csv.rows[2]["NAPI"] = NaN

----------------------------------------------------------------------------
(* C2 *)

\* The fraction A / B the formula of the spec gives for the row at `pos` of the
\* written table: A = count * sum_j ppt[pos-j] k^j, B = total * sum_j k^j (both
\* times kd^N), the mean being total / count over the whole column.
FormulaA(pos) ==
    Cardinality(DefinedPpt)
      * SumFn([j \in 1..napi_call.N |->
                  PptAfter(pos - j)[1] * (napi_call.k[1] ^ j)
                     * (napi_call.k[2] ^ (napi_call.N - j))], 1..napi_call.N)
FormulaB ==
    PptTotal
      * SumFn([j \in 1..napi_call.N |->
                  (napi_call.k[1] ^ j) * (napi_call.k[2] ^ (napi_call.N - j))],
              1..napi_call.N)

\* r / 10^d is a multiple of 10^-d nearest to a / b (either neighbour when
\* a / b is a tie, which is where the rounding error of the float64 quotient
\* decides).
IsNearest(r, d, a, b) == 2 * Abs(r * b - a * (10 ^ d)) <= Abs(b)

\* r / 10^d is a / b rounded to d places: no multiple of 10^-d is nearer.
IsRounded(r, d, a, b) ==
    LET e == 2 * Abs(r * b - a * (10 ^ d))
    IN  /\ e <= Abs(b)
        /\ e = Abs(b) => r % 2 = 0

\* C2: the rows are written in ascending date order, and for every row of
\* index >= N (where the quotient is defined) the stored NAPI is the quotient
\* (sum_j ppt[i-j] k^j) / (mean(ppt) * sum_j k^j), over the j-th rows before it
\* in that order and the mean of the whole column, rounded to `decimals`.
C2_NapiIsTheFormula ==
    (ReturnedTrue /\ MeanIsNonZero) =>
        /\ \A pos \in 1..(Len(csv.rows) - 1) :
              DateKey(csv.rows[pos][napi_call.date_field])
                 <= DateKey(csv.rows[pos + 1][napi_call.date_field])
        /\ \A pos \in 1..Len(csv.rows) :
              (Index(pos) >= napi_call.N /\ ~WeightsVanish /\ WindowDefined(pos)) =>
                 /\ csv.rows[pos]["NAPI"] # NaN
                 /\ csv.rows[pos]["NAPI"][2] = napi_call.decimals
                 /\ IsNearest(csv.rows[pos]["NAPI"][1], napi_call.decimals,
                              FormulaA(pos), FormulaB)

\* A table whose file order is not its date order, with a NAPI that is neither
\* 0 nor 1 and takes rounding.
C2_Witness ==
    /\ ReturnedTrue /\ MeanIsNonZero
    /\ Len(csv.rows) = 3
    /\ napi_call.N = 2
    /\ csv.rows[1]["Filename"] # Num(1)
    /\ DateKey(csv.rows[1]["Date"]) < DateKey(csv.rows[3]["Date"])
    /\ csv.rows[3]["NAPI"] # NaN
    /\ csv.rows[3]["NAPI"][1] * FormulaB # FormulaA(3) * 100

----------------------------------------------------------------------------
(* C3 *)

\* C3: whenever calculate_napi returns True, the file has been rewritten with
\* exactly the two columns NAPI and Conditions appended after the original ones.
C3_TwoColumnsAppended ==
    ReturnedTrue =>
        csv.header = csv_before.header \o <<"NAPI", "Conditions">>

----------------------------------------------------------------------------
(* C4 *)

\* C4: when the mean of the precipitation column is exactly zero,
\* calculate_napi returns True, every row's NAPI is undefined, and the table is
\* rewritten with the NAPI column added.
C4_ZeroMeanAllUndefined ==
    (Computes /\ MeanIsZero) =>
        /\ napi_ret = "True"
        /\ "NAPI" \in ColumnsOf(csv)
        /\ "NAPI" \notin ColumnsOf(csv_before)
        /\ Len(csv.rows) = Len(csv_before.rows)
        /\ \A pos \in 1..Len(csv.rows) : csv.rows[pos]["NAPI"] = NaN

C4_Witness ==
    /\ Computes /\ MeanIsZero
    /\ Len(csv.rows) = 3
    /\ napi_call.N = 1
    /\ napi_call.k = <<49, 50>>

----------------------------------------------------------------------------
(* C5 *)

\* C5: in the written table every row's label is a function of the stored
\* NAPI: undefined gives no label, |NAPI - 1| < 1e-6 gives "normal", otherwise
\* NAPI > 1 gives "wet" and NAPI < 1 gives "dry".
C5_LabelFollowsStoredNapi ==
    ReturnedTrue =>
        \A pos \in 1..Len(csv.rows) :
            LET x     == csv.rows[pos]["NAPI"]
                label == LabelOf(csv.rows[pos])
                one   == 10 ^ x[2]
            IN  IF x = NaN THEN label = ""
                ELSE IF Abs(x[1] - one) * 1000000 < one THEN label = "normal"
                ELSE IF x[1] > one THEN label = "wet"
                ELSE label = "dry"

C5_Witness ==
    /\ ReturnedTrue
    /\ Len(csv.rows) = 3
    /\ LabelOf(csv.rows[1]) = ""
    /\ {LabelOf(csv.rows[2]), LabelOf(csv.rows[3])} = {"wet", "dry"}

----------------------------------------------------------------------------
(* C7 *)

\* C7: if the precipitation column or the date column the caller names is not
\* in the table, calculate_napi returns False and the file is what it was.
C7_MissingColumnLeavesFile ==
    (Returned /\ (\/ napi_call.ppt_field \notin ColumnsOf(csv_before)
                  \/ napi_call.date_field \notin ColumnsOf(csv_before))) =>
        /\ napi_ret = "False"
        /\ csv = csv_before

C7_Witness ==
    /\ Returned
    /\ napi_call.ppt_field \notin ColumnsOf(csv_before)
    /\ Len(csv.rows) = 3
    /\ napi_ret = "False"

----------------------------------------------------------------------------
(* C6 *)

\* The rows calculate_napi computes a quotient for.
HasQuotient(pos) ==
    /\ MeanIsNonZero /\ ~WeightsVanish
    /\ Index(pos) >= napi_call.N
    /\ WindowDefined(pos)

\* The quotient of the row, before rounding, is n / d (in lowest terms).
QuotientIs(pos, n, d) == Reduced(FormulaA(pos), FormulaB) = <<n, d>>

\* The NAPI stored for the row is n / d (in lowest terms).
StoredIs(pos, n, d) ==
    /\ csv.rows[pos]["NAPI"] # NaN
    /\ Reduced(csv.rows[pos]["NAPI"][1], 10 ^ csv.rows[pos]["NAPI"][2]) = <<n, d>>

\* C6 as stated: a row whose quotient is 1 +/- 1e-7 is labelled "normal", one
\* whose quotient is 1.000002 "wet", one whose quotient is 0.999 "dry".
C6_AsStated ==
    ReturnedTrue =>
        \A pos \in 1..Len(csv.rows) :
            HasQuotient(pos) =>
                /\ (QuotientIs(pos, 10000001, 10000000) \/ QuotientIs(pos, 9999999, 10000000))
                      => LabelOf(csv.rows[pos]) = "normal"
                /\ QuotientIs(pos, 500001, 500000) => LabelOf(csv.rows[pos]) = "wet"
                /\ QuotientIs(pos, 999, 1000) => LabelOf(csv.rows[pos]) = "dry"

\* C6 (amended): the label is that of the NAPI as stored, i.e. of the quotient
\* rounded to `decimals` places.  A stored 1 +/- 1e-7 is "normal", a stored
\* 1.000002 "wet", a stored 0.999 "dry"; a quotient of 1 +/- 1e-7 is always
\* labelled "normal", a quotient of 1.000002 is labelled "wet" only when
\* decimals >= 6 and a quotient of 0.999 "dry" only when decimals >= 3: with
\* fewer decimals (the default 2 among them) both are stored as 1.0 and
\* labelled "normal".
C6_LabelOfRoundedNapi ==
    ReturnedTrue =>
        \A pos \in 1..Len(csv.rows) :
            LET label == LabelOf(csv.rows[pos])
                d     == napi_call.decimals
            IN  /\ (StoredIs(pos, 10000001, 10000000) \/ StoredIs(pos, 9999999, 10000000))
                      => label = "normal"
                /\ StoredIs(pos, 500001, 500000) => label = "wet"
                /\ StoredIs(pos, 999, 1000) => label = "dry"
                /\ HasQuotient(pos) =>
                      /\ (QuotientIs(pos, 10000001, 10000000)
                            \/ QuotientIs(pos, 9999999, 10000000))
                           => label = "normal"
                      /\ QuotientIs(pos, 500001, 500000)
                           => label = (IF d >= 6 THEN "wet" ELSE "normal")
                      /\ QuotientIs(pos, 999, 1000)
                           => label = (IF d >= 3 THEN "dry" ELSE "normal")

C6_Witness ==
    /\ ReturnedTrue
    /\ napi_call.decimals = 6
    /\ HasQuotient(2)
    /\ QuotientIs(2, 500001, 500000)
    /\ StoredIs(2, 500001, 500000)
    /\ LabelOf(csv.rows[2]) = "wet"

----------------------------------------------------------------------------
(* Properties of climate_data *)

\* The last raster of the list was opened and read.
Read ==
    /\ cd_log # <<>>
    /\ cd_log[Len(cd_log)] # "open_error"

\* The cells of the raster read last, in row-major order.
Cells == Flatten(raster.grid)

Scaled == raster.scale # 1 \/ raster.offset # 0

\* cell * scale + offset.
Rescaled(cell) ==
    IF IsNaN(cell) THEN NaN ELSE Num(Val(cell) * raster.scale + raster.offset)

\* C8 as stated: when the scale is not 1 or the offset not 0, every value of
\* the sample handed to calculate_stats is raw_cell * scale + offset for a
\* cell of the raster; when the scale is 1 and the offset 0, every value of
\* the sample is a raw cell.
C8_SampleIsRescaled ==
    Read =>
        \A i \in 1..Len(sample) :
            IF Scaled
            THEN \E j \in 1..Len(Cells) : sample[i] = Rescaled(Cells[j])
            ELSE \E j \in 1..Len(Cells) : sample[i] = Cells[j]

\* The cell is excluded by the nodata of the raster: equal to it when it is a
\* number, not-a-number when it is not-a-number, never when it is absent.
Excluded(cell) ==
    \/ raster.nodata.kind = "value" /\ ~IsNaN(cell) /\ Val(cell) = raster.nodata.v
    \/ raster.nodata.kind = "nan" /\ IsNaN(cell)

\* The positions of the cells that are not excluded.
KeptPositions == {j \in 1..Len(Cells) : ~Excluded(Cells[j])}

\* The i-th smallest of the kept positions.
KeptAt(i) ==
    CHOOSE j \in KeptPositions : Cardinality({h \in KeptPositions : h < j}) = i - 1

\* C9: the sample of a raster is its cells in row-major order without the
\* excluded ones: the cells equal to a numeric nodata, the not-a-number cells
\* when the nodata is not-a-number, none when there is no nodata.  Every other
\* cell is in the sample, once and in its place (a not-a-number cell of a
\* raster with a numeric nodata among them).
C9_SampleIsGridWithoutNodata ==
    Read =>
        /\ Len(sample) = Cardinality(KeptPositions)
        /\ \A i \in 1..Len(sample) : sample[i] = Cells[KeptAt(i)]

C9_Witness ==
    /\ Read
    /\ raster.nodata.kind = "value"
    /\ Cells = <<Num(raster.nodata.v), NaN>>
    /\ sample = <<NaN>>

\* The sample is empty or holds nothing but not-a-number.
Hollow == \A i \in 1..Len(sample) : IsNaN(sample[i])

\* How many rasters of the list have had the outcome `out`.
Count(out) == Cardinality({i \in 1..Len(cd_log) : cd_log[i] = out})

\* C10: a raster whose sample is empty or entirely not-a-number is skipped:
\* the skip is logged, no row is written for it (the table has one row per
\* raster that was not skipped and raised nothing), nothing is raised, and
\* climate_data stays in its loop until the list is exhausted.
C10_HollowSampleSkipped ==
    /\ (Read /\ Hollow) =>
          /\ cd_log[Len(cd_log)] = "skip"
          /\ cd_pc \in {"loop", "done"}
    /\ cd_pc \in {"loop", "done"} => Len(csv.rows) = Count("row")
    /\ cd_pc \in {"loop", "done"} => Len(cd_log) = Count("row") + Count("skip")

C10_Witness ==
    /\ cd_log = <<"skip", "row">>
    /\ cd_pc = "done"
    /\ Len(csv.rows) = 1
    /\ csv.rows[1]["Filename"] = raster.name

\* The positions in the list of the rasters a row was written for.
RowPositions == {i \in 1..Len(cd_log) : cd_log[i] = "row"}

\* The n-th smallest of a set of positions.
NthOf(S, n) == CHOOSE j \in S : Cardinality({h \in S : h < j}) = n - 1

\* The table is the header of the run and one row per raster a row was written
\* for, in list order.
TableIsRowsInListOrder ==
    /\ csv.header = fieldnames(cd_run.unit)
    /\ Len(csv.rows) = Cardinality(RowPositions)
    /\ \A n \in 1..Len(csv.rows) :
          /\ csv.rows[n]["Filename"] = cd_list[NthOf(RowPositions, n)]
          /\ csv.rows[n]["Date"] =
                parse_filename(cd_list[NthOf(RowPositions, n)]).formatted_date

\* C11: when climate_data has returned, the table is the header and one row
\* per raster that was not skipped for an empty sample, in list order, and
\* nothing of an earlier table is left.  When it has raised at raster i, the
\* table is the header and the rows of the rasters before i that were not
\* skipped, raster i is the last one taken from the list, and every raster
\* before it was either written or skipped.
C11_TableIsRowsInListOrder ==
    /\ cd_pc = "done" =>
          /\ TableIsRowsInListOrder
          /\ \A i \in 1..Len(cd_log) : cd_log[i] \in {"row", "skip"}
    /\ (cd_pc = "raised" /\ cd_log # <<>>) =>
          /\ TableIsRowsInListOrder
          /\ Len(cd_list) = Len(cd_log)
          /\ cd_log[Len(cd_log)] \in {"open_error", "parse_error"}
          /\ \A i \in 1..(Len(cd_log) - 1) : cd_log[i] \in {"row", "skip"}

\* Two rows written in list order, the later date first.
C11_Witness ==
    /\ cd_pc = "done"
    /\ cd_list = <<"prism_ppt_25m_202002_clip.tif", "prism_ppt_25m_20200101_clip.tif">>
    /\ cd_log = <<"row", "row">>
    /\ Len(csv.rows) = 2
    /\ csv.rows[1]["Date"] = <<2>>

\* The last raster of the list had a row written, the last of the table.
Wrote == Read /\ cd_log[Len(cd_log)] = "row"
LastRow == csv.rows[Len(csv.rows)]

SampleDefined == \A i \in 1..Len(sample) : ~IsNaN(sample[i])

\* The fraction x = <<a, b>> of the source unit (millimetres, degrees
\* Celsius) in the unit calculate_stats is asked for.
InchesOf(x) == <<10 * x[1], 254 * x[2]>>
FahrenheitOf(x) == <<9 * x[1] + 160 * x[2], 5 * x[2]>>
InUnit(x) ==
    IF cd_run.climate = "ppt" /\ cd_run.unit = "in" THEN InchesOf(x)
    ELSE IF cd_run.climate \in {"tmean", "tmax", "tmin", "tdmean"} /\ cd_run.unit = "f"
         THEN FahrenheitOf(x)
    ELSE x

\* The stored statistic is the base statistic x in the unit asked for,
\* rounded to the decimals of the run.
IsStatOf(stored, x) ==
    /\ stored # NaN
    /\ stored[2] = cd_run.decimals
    /\ IsRounded(stored[1], cd_run.decimals, InUnit(x)[1], InUnit(x)[2])

\* C12: each of min, max, mean and median written for a raster is the base
\* statistic of the raw sample, divided by 25.40 for ppt in "in", mapped to
\* x * 9/5 + 32 for a temperature in "f", and unchanged for every other unit
\* and every other climate code, then rounded to `decimals` places.
C12_StatsConvertedThenRounded ==
    (Wrote /\ SampleDefined) =>
        LET cols == stat_columns(cd_run.unit)
        IN  /\ IsStatOf(LastRow[cols[1]], cmin(sample))
            /\ IsStatOf(LastRow[cols[2]], cmax(sample))
            /\ IsStatOf(LastRow[cols[3]], cmean(sample))
            /\ IsStatOf(LastRow[cols[4]], cmed(sample))

\* Two cells -9 and 2 of a precipitation raster in inches: mean -3.5 mm is
\* -0.14 in, minimum -9 mm is -0.35 in.
C12_Witness ==
    /\ Wrote
    /\ cd_run.climate = "ppt" /\ cd_run.unit = "in"
    /\ sample = <<Num(-9), Num(2)>>
    /\ LastRow["Arithmetic Mean (in)"] = <<-14, 2>>
    /\ LastRow["Min. (in)"] = <<-35, 2>>

\* The unit the header of the table names in its statistic columns.
HeaderUnit ==
    IF csv.header[4] = "Min. (in)" THEN "in"
    ELSE IF csv.header[4] = "Min. (mm)" THEN "mm"
    ELSE IF csv.header[4] = "Min. (F)" THEN "F"
    ELSE IF csv.header[4] = "Min. (C)" THEN "C"
    ELSE "none"

IsRoundedStat(stored, x) ==
    /\ stored # NaN
    /\ IsRounded(stored[1], stored[2], x[1], x[2])

\* The stored statistic is the base statistic x (millimetres for ppt, degrees
\* Celsius for a temperature) expressed in the unit u.
ExpressedIn(u, stored, x) ==
    IF u = "in" THEN cd_run.climate = "ppt" /\ IsRoundedStat(stored, InchesOf(x))
    ELSE IF u = "mm" THEN cd_run.climate = "ppt" /\ IsRoundedStat(stored, x)
    ELSE IF u = "F"
         THEN cd_run.climate \in {"tmean", "tmax", "tmin", "tdmean"}
                 /\ IsRoundedStat(stored, FahrenheitOf(x))
    ELSE IF u = "C"
         THEN cd_run.climate \in {"tmean", "tmax", "tmin", "tdmean"}
                 /\ IsRoundedStat(stored, x)
    ELSE TRUE

\* C13 as stated: for every climate code and unit, the values of a written
\* row are expressed in the unit the header names in its statistic columns.
C13_HeaderUnitIsValueUnit ==
    (Wrote /\ SampleDefined) =>
        /\ ExpressedIn(HeaderUnit, LastRow[csv.header[4]], cmin(sample))
        /\ ExpressedIn(HeaderUnit, LastRow[csv.header[5]], cmax(sample))
        /\ ExpressedIn(HeaderUnit, LastRow[csv.header[6]], cmean(sample))
        /\ ExpressedIn(HeaderUnit, LastRow[csv.header[7]], cmed(sample))

\* The date "unknown" of the fallback of data_processing.py:160-163 (no date
\* has three parts).
UnknownDate == <<0, 0, 0>>

\* The raster read last has data and a name parse_filename does not match.
Unparseable ==
    /\ Read
    /\ ~Hollow
    /\ ~parse_filename(raster.name).ok

\* C14 as stated: a raster whose name parse_filename cannot parse (and which
\* splits on '_' into fewer than 5 fields) does not make climate_data raise:
\* its row is written with the date "unknown" and the run goes on.
C14_UnparseableNameFallsBack ==
    Unparseable =>
        /\ cd_pc # "raised"
        /\ cd_log[Len(cd_log)] = "row"
        /\ LastRow["Filename"] = raster.name
        /\ LastRow["Climate Variable"] = cd_run.climate
        /\ LastRow["Date"] = UnknownDate

----------------------------------------------------------------------------
(* Properties of data_processing *)

\* data_processing has reported a precipitation run complete.
PptRunComplete == dp.pc = "complete" /\ dp.run.climate = "ppt"

\* C15 as stated: in every precipitation run that gets past the statistics
\* stage, whatever the unit, the second pass finds the precipitation column
\* it asks for in the table climate_data wrote, and the final table has the
\* columns NAPI and Conditions.
C15_SecondPassFindsColumn ==
    PptRunComplete =>
        /\ HasColumn(csv_before, napi_call.ppt_field)
        /\ HasColumn(csv, "NAPI")
        /\ HasColumn(csv, "Conditions")

\* C16 as stated: when calculate_napi returns False, data_processing does not
\* report the step and the run complete.
C16_FailureReachesOrchestration ==
    (dp.ante /\ napi_ret = "False") => dp.pc # "complete"

\* C18: ante_conditions is invoked only for 'ppt' and only after climate_data
\* has returned, the table holding every row; every 'ppt' run reported
\* complete has invoked it; after climate_data raised it is never invoked and
\* the run is not reported complete.
C18_AnteOnlyForPptAfterSave ==
    /\ (dp.pc = "napi" \/ dp.ante) =>
          /\ dp.run.climate = "ppt"
          /\ cd_pc = "done"
    /\ dp.pc = "napi" => TableIsRowsInListOrder
    /\ dp.ante => Len(csv_before.rows) = Cardinality(RowPositions) \/ napi_ret = "pending"
    /\ PptRunComplete => dp.ante
    /\ dp.pc = "complete" => cd_pc = "done"
    /\ cd_pc = "raised" =>
          /\ ~dp.ante
          /\ napi_ret = "pending"
          /\ dp.pc \in {"none", "save", "raised"}

C18_Witness ==
    /\ PptRunComplete
    /\ dp.ante
    /\ napi_ret = "True"
    /\ cd_log = <<"row", "skip">>
    /\ Len(csv.rows) = 1
    /\ HasColumn(csv, "NAPI")

----------------------------------------------------------------------------
(* The rows calculate_napi writes back *)

\* The written row is the row `from` of the table before the call: every
\* column the table had keeps its value, the date column the same date.
SameRow(pos, from) ==
    /\ \A c \in ColumnsOf(csv_before) \ {napi_call.date_field} :
          csv.rows[pos][c] = csv_before.rows[from][c]
    /\ DateKey(csv.rows[pos][napi_call.date_field])
          = DateKey(ToDatetime(csv_before.rows[from][napi_call.date_field]))

\* C17: after calculate_napi returns True the written rows are in ascending
\* date order and are the rows of the table before the call, each once: none
\* added, dropped or duplicated, every column but the date with its value.
C17_RowsSortedAndKept ==
    ReturnedTrue =>
        /\ Len(csv.rows) = Len(csv_before.rows)
        /\ \A pos \in 1..(Len(csv.rows) - 1) :
              DateKey(csv.rows[pos][napi_call.date_field])
                 <= DateKey(csv.rows[pos + 1][napi_call.date_field])
        /\ \E from \in Perms(Len(csv.rows)) :
              \A pos \in 1..Len(csv.rows) : SameRow(pos, from[pos])

\* Three rows whose file order is the reverse of their date order.
C17_Witness ==
    /\ ReturnedTrue
    /\ Len(csv.rows) = 3
    /\ csv_before.rows[1]["Date"] = <<1, 2>>
    /\ csv_before.rows[3]["Date"] = <<1, 1>>
    /\ csv.rows[1]["Filename"] = csv_before.rows[3]["Filename"]
    /\ csv.rows[3]["Filename"] # csv_before.rows[3]["Filename"]

----------------------------------------------------------------------------
(* The two-raster scenario, and the window of one row *)

\* The row climate_data writes for a raster of a 'ppt' run in mm.
ScenarioRow(r) ==
    StatsRow(r, calculate_stats(data_series(r), "ppt", "mm", StatDecimals),
             parse_filename(r.name).formatted_date, "ppt", "mm")

\* The run of the scenario: the table of the two rasters, N = 1, k = 0.9.
ScenarioRun ==
    /\ PptRunComplete
    /\ ReturnedTrue
    /\ dp.run.unit = "mm"
    /\ csv_before.rows \in {<<ScenarioRow(ScenarioFirst), ScenarioRow(ScenarioSecond)>>,
                            <<ScenarioRow(ScenarioSecond), ScenarioRow(ScenarioFirst)>>}
    /\ napi_call.N = 1
    /\ napi_call.k = <<9, 10>>

\* The means of the two rasters as fractions: (10+20+30+40+50) / 5, and
\* (100+0+5+15) / 4 without the nodata cell.
FirstMean == <<150, 5>>
SecondMean == <<120, 4>>

\* row1_mean / overall_mean = 2 f / (f + s) for the means f and s.
ScenarioQuotient ==
    <<2 * FirstMean[1] * SecondMean[2],
      FirstMean[1] * SecondMean[2] + SecondMean[1] * FirstMean[2]>>

ScenarioHolds ==
    ScenarioRun =>
        /\ csv.rows[1]["Filename"] = ScenarioFirst.name
        /\ csv.rows[1]["NAPI"] = NaN
        /\ csv.rows[2]["Filename"] = ScenarioSecond.name
        /\ csv.rows[2]["NAPI"] # NaN
        /\ csv.rows[2]["NAPI"][2] = 2
        /\ IsRounded(csv.rows[2]["NAPI"][1], 2, ScenarioQuotient[1], ScenarioQuotient[2])

\* A call with N = 1 and k # 0 on a table whose mean is not zero.
WindowOfOne ==
    /\ ReturnedTrue
    /\ MeanIsNonZero
    /\ napi_call.N = 1
    /\ napi_call.k[1] # 0

\* C19 as stated: the scenario gives row 2 the NAPI row1_mean / overall_mean
\* rounded to 2 decimals and row 1 none; and with N = 1 and k # 0 the NAPI of
\* a row does not depend on k: it is round(ppt[i-1] / mean(ppt), decimals),
\* which k does not enter.
C19_WindowOfOneIgnoresK ==
    /\ ScenarioHolds
    /\ WindowOfOne =>
          \A pos \in 2..Len(csv.rows) :
              PptAfter(pos - 1) # NaN =>
                 /\ csv.rows[pos]["NAPI"] # NaN
                 /\ IsRounded(csv.rows[pos]["NAPI"][1], napi_call.decimals,
                              PptAfter(pos - 1)[1] * Cardinality(DefinedPpt), PptTotal)

\* C19 (amended): the scenario as stated; and with N = 1 and k # 0 the NAPI of
\* a row is ppt[i-1] / mean(ppt) to the nearest multiple of 10^-decimals.
\* Where ppt[i-1] / mean(ppt) lies midway between two such multiples, the
\* stored value is either of them: the quotient is computed in float64 as
\* (ppt[i-1] * k) / (mean * k), and its rounding error, which depends on k,
\* decides the side.
C19_WindowOfOneNearestQuotient ==
    /\ ScenarioHolds
    /\ WindowOfOne =>
          \A pos \in 2..Len(csv.rows) :
              PptAfter(pos - 1) # NaN =>
                 /\ csv.rows[pos]["NAPI"] # NaN
                 /\ IsNearest(csv.rows[pos]["NAPI"][1], napi_call.decimals,
                              PptAfter(pos - 1)[1] * Cardinality(DefinedPpt), PptTotal)

C19_Witness ==
    /\ ScenarioRun
    /\ cd_list = <<ScenarioSecond.name, ScenarioFirst.name>>
    /\ csv.rows[2]["NAPI"] = <<100, 2>>
    /\ LabelOf(csv.rows[2]) = "normal"

----------------------------------------------------------------------------
(* Properties of raster_clip *)

\* The positions of the inputs that are rasters.
TifPositions == {i \in 1..Len(clip.inputs) : IsTif(clip.inputs[i])}

\* The file of the clipped directory under a name, if there is one.
FilesNamed(name) == {f \in clip.store : f.name = name}

\* C20 as stated: when raster_clip has returned, its list has one entry per
\* '.tif' input, in input order, and each entry names a file of the clipped
\* directory that holds the clip of that input.
C20_OneClipPerInput ==
    clip.pc = "done" =>
        /\ Len(clip.list) = Cardinality(TifPositions)
        /\ \A n \in 1..Len(clip.list) :
              \E f \in FilesNamed(clip.list[n]) :
                  f.source = clip.inputs[NthOf(TifPositions, n)]

\* The positions of the inputs that were clipped.
ClippedPositions == {i \in 1..Len(clip.log) : clip.log[i] = "clipped"}

\* The fields of a name, each joined back over its '.' pieces, are the given
\* ones and the name ends in _clip.tif.
NamedFrom(name, fields) ==
    /\ Len(name) = Len(fields) + 1
    /\ \A j \in 1..Len(fields) : name[j] = fields[j]
    /\ Last(name) = <<"clip", "tif">>

\* C21: the n-th path of the list is named after the n-th clipped input:
\* source, variable, resolution and date (the fifth field up to its first
\* '.') when the input name has five fields or more, the whole stem
\* otherwise, followed by _clip.tif; a file of that name is in the clipped
\* directory; and the warning was logged for the shorter names only.
C21_OutputNamedFromFields ==
    /\ Len(clip.list) = Cardinality(ClippedPositions)
    /\ \A n \in 1..Len(clip.list) :
          LET in == clip.inputs[NthOf(ClippedPositions, n)] IN
          /\ FilesNamed(clip.list[n]) # {}
          /\ IF Len(in) >= 5
             THEN /\ NamedFrom(clip.list[n], <<in[1], in[2], in[4], <<in[5][1]>>>>)
                  /\ in \notin clip.warnings
             ELSE /\ NamedFrom(clip.list[n], Stem(in))
                  /\ in \in clip.warnings

\* A name of fewer than five fields has been clipped and written, and so has
\* a name of six fields.
C21_Witness ==
    /\ clip.pc = "done"
    /\ \E n \in 1..Len(clip.list) :
          /\ clip.list[n] = <<<<"ppt">>, <<"20200101">>, <<"clip", "tif">>>>
          /\ FilesNamed(clip.list[n]) # {}
    /\ \E n \in 1..Len(clip.list) :
          /\ Len(clip.inputs[NthOf(ClippedPositions, n)]) = 6
          /\ clip.list[n] = <<<<"prism">>, <<"ppt">>, <<"25m">>, <<"20200103">>, <<"clip", "tif">>>>

\* C22: a raster that fails to open, mask or write is the last one the batch
\* touches: raster_clip has raised, and so has returned no list.
C22_FailureRaises ==
    \A i \in 1..Len(clip.log) :
        clip.log[i] = "failed" => clip.pc = "raised" /\ i = Len(clip.inputs)

\* A raster failed after another one had been clipped and listed.
C22_Witness ==
    /\ clip.pc = "raised"
    /\ Len(clip.log) = 2
    /\ clip.log[1] = "clipped"
    /\ clip.log[2] = "failed"
    /\ Len(clip.list) = 1

\* The files this call has written.
WrittenNow == {f \in clip.store : \E i \in ClippedPositions : clip.inputs[i] = f.source}

\* C23 as stated: a clipped raster has the data type, band count, nodata
\* value, scale and offset of its source raster.
C23_ClipKeepsSourceMetadata ==
    \A f \in WrittenNow :
        LET src == SourceOf(f.source) IN
        /\ f.profile.dtype = src.dtype
        /\ f.profile.count = src.count
        /\ f.profile.nodata = src.nodata
        /\ f.profile.scales = src.scales
        /\ f.profile.offsets = src.offsets

(* Properties of calculate_stats *)

\* calculate_stats has returned for a sample that is not empty and holds no
\* undefined value.
StatsOfValidSample ==
    /\ stat_call.pc = "returned"
    /\ stat_call.data_series # <<>>
    /\ \A i \in 1..Len(stat_call.data_series) : ~IsNaN(stat_call.data_series[i])

\* A stored statistic in units of 10^-decimals.
Stored(x) == x[1]

\* C24 as stated: after conversion and rounding, min <= median <= max and
\* min <= mean <= max.
C24_StatsOrdered ==
    StatsOfValidSample =>
        LET r == stat_call.result IN
        /\ Stored(r.min) <= Stored(r.median) /\ Stored(r.median) <= Stored(r.max)
        /\ Stored(r.min) <= Stored(r.mean) /\ Stored(r.mean) <= Stored(r.max)

\* C24: after conversion and rounding, min <= median <= max, and the mean
\* lies between min and max up to one unit of the last decimal place.
C24_StatsOrderedUpToOneUnit ==
    StatsOfValidSample =>
        LET r == stat_call.result IN
        /\ Stored(r.min) <= Stored(r.median) /\ Stored(r.median) <= Stored(r.max)
        /\ Stored(r.min) - 1 <= Stored(r.mean) /\ Stored(r.mean) <= Stored(r.max) + 1

\* Three cells of 0.045 mm: min, median and max are stored as 0.04 and the
\* mean, whose float64 sum is not three times the value, as 0.05.
C24_Witness ==
    /\ StatsOfValidSample
    /\ stat_call.data_series = <<Num(45), Num(45), Num(45)>>
    /\ stat_call.climate = "ppt" /\ stat_call.unit = "mm"
    /\ stat_call.result.max = <<4, 2>>
    /\ stat_call.result.mean = <<5, 2>>

\* calculate_stats has returned the inches of one precipitation value.
InchesOfOneValue ==
    /\ stat_call.pc = "returned"
    /\ Len(stat_call.data_series) = 1
    /\ ~IsNaN(stat_call.data_series[1])
    /\ stat_call.climate = "ppt" /\ stat_call.unit = "in"

\* The stored inches x times 25.40, rounded to the decimals of x: the
\* millimetres in units of 10^-decimals.
BackToMm(x) == RoundHalfEven(x[1] * 254, 10 * Pow(10, x[2]), x[2])

\* The distance between the millimetres got back and the value v the sample
\* held, in units of 10^-decimals / (10 * SamplePer).
RoundTripError ==
    LET v == Val(stat_call.data_series[1])
        x == stat_call.result.min
    IN  Abs(BackToMm(x) * SamplePer - v * Pow(10, x[2])) * 10

\* C25 as stated: the millimetres got back are within 10^-decimals of v.
C25_RoundTripWithinOneUnit ==
    InchesOfOneValue => RoundTripError <= 10 * SamplePer

\* C25: the millimetres got back are within 13.2 * 10^-decimals of v: half
\* a unit of the inches is 12.7 units of the millimetres, and the second
\* rounding adds half a unit.
C25_RoundTripWithinInchRounding ==
    InchesOfOneValue => RoundTripError <= 132 * SamplePer

\* 1.000 mm is stored as 0.04 in, which is 1.02 mm.
C25_Witness ==
    /\ InchesOfOneValue
    /\ stat_call.data_series = <<Num(1000)>>
    /\ stat_call.result.min = <<4, 2>>
    /\ BackToMm(stat_call.result.min) = 102

(* Properties of ante_conditions *)

C27_PresetEndsLoop ==
    /\ ante.ante_num = "preset" =>
          /\ ante.pc = "called"
          /\ napi_call.N = PresetDays(ante.resolution)
    /\ ante.pc = "called" => napi_call.N > 0

\* C28 as stated: the row climate_data appends for a raster it does not skip
\* has a defined minimum, maximum, mean and median, also when the nodata
\* value is a number or absent and some cells, not all, are not-a-number.
C28_AppendedStatsDefined ==
    Wrote =>
        \A n \in 4..7 : ~IsNaN(LastRow[csv.header[n]])

\* C29 as stated: in a precipitation run, after an answer other than 'y' or
\* 'yes' at main's prompt ante_conditions is not invoked and a completed run
\* leaves the table without NAPI and Conditions; after 'y' or 'yes' the
\* start date was moved back by the preset window and a completed run has
\* invoked ante_conditions.
C29_PromptDecidesIndex ==
    (dp.run.climate = "ppt" /\ dp.pc \notin {"none", "main"}) =>
        IF dp.answer \in {"y", "yes"}
        THEN /\ dp.moved_back = PresetDays(dp.resolution)
             /\ PptRunComplete => dp.ante
        ELSE /\ ~dp.ante
             /\ PptRunComplete => ~HasColumn(csv, "NAPI") /\ ~HasColumn(csv, "Conditions")

\* C30 as stated: after 'y' at the download prompt, once the download and
\* move stages are done the restart prompt is shown, and the run goes on
\* through extraction, sorting and the clip prompt to the statistics instead
\* of aborting (unless clipping itself fails).
C30_DownloadRunGoesOn ==
    (dp.download = "y" /\ dp.pc \notin {"download", "move", "restart"}
        /\ dp.stages # <<>>) =>
        /\ dp.fault \in {"", "clip"}
        /\ Len(dp.stages) >= 3
        /\ SubSeq(dp.stages, 1, 3) = <<"download", "move", "restart prompt">>
        /\ dp.pc = "save" =>
              /\ SubSeq(dp.stages, 4, 5) = <<"extract", "sort">>
              /\ Len(dp.stages) \in {5, 6}

====
